---- MODULE Spec2Model ----
(***************************************************************************)
(* Model of the tile download engine (services/tileDownloader.ts):         *)
(* DownloadController, DownloadQueue, RateLimiter, RetryController,        *)
(* ProgressTracker, FailureMonitor, the createTileIterator async generator *)
(* and the stats poller of downloadTiles.                                  *)
(*                                                                         *)
(* The JavaScript event loop is modelled by the generator position pc:     *)
(* while pc is one of RunningPcs the generator is executing synchronously  *)
(* and no other code can run; at one of SettledPcs an await of the         *)
(* generator has settled and its continuation is queued, so the caller's   *)
(* next statement or a promise reaction can still run before it.           *)
(***************************************************************************)
EXTENDS Integers, Sequences, FiniteSets, TLC

\* ------------------------------------------------------------------ bounds
MaxTiles == 2
MaxRetries == 1
LongRunTiles == 11
MaxClock == 6

\* ------------------------------------------------------- program constants
MaxConcurrency == 6
DefaultConcurrency == 6
MinAttempts == 10
\* FailureMonitor threshold 0.25 as the fraction ThresholdNum / ThresholdDen
ThresholdNum == 1
ThresholdDen == 4

IDLE == "idle"
DOWNLOADING == "downloading"
PAUSED == "paused"
CANCELLED == "cancelled"
COMPLETED == "completed"
FAILED == "failed"

\* an optional value: <<>> is absent (undefined), <<v>> is present
None == <<>>
Some(v) == <<v>>

Min(a, b) == IF a < b THEN a ELSE b

\* ------------------------------------------------------------- the inputs
\* config.concurrency: absent, negative, zero, in range, above the maximum
ConcurrencyInputs == {None, Some(-1), Some(0), Some(1), Some(2), Some(7)}

\* config.rateLimit (tiles per second) of the rate-limiter runs
RateInputs == {500, 1000}

\* outcomes of one fetch attempt in downloadTile
FetchOutcomes == {"ok", "http404", "http503", "notImage", "network", "timeout", "cors"}

\* byte size of the blob the stub server returns for a tile
TileSize(t) == 1 + (t % 2)

VARIABLES
    concurrency,        \* DownloadQueue.concurrency
    maxRetries,         \* RetryController.maxRetries
    hasRateLimiter,     \* DownloadQueue.rateLimiter !== null
    tiles,              \* the tiles argument of createTileIterator
    state,              \* DownloadController.state
    aborted,            \* DownloadController.abortController.signal.aborted
    progress,           \* ProgressTracker.progress
    fmTotal,            \* FailureMonitor.total
    fmFailed,           \* FailureMonitor.failed
    queue,              \* DownloadQueue.queue
    queuePaused,        \* DownloadQueue.paused
    pc,                 \* position of the createTileIterator generator
    activeDownloads,    \* createTileIterator: activeDownloads (task ids)
    completedDownloads, \* createTileIterator: completedDownloads (task ids)
    tasks,              \* the download promises: task id -> task record
    nextTask,           \* id of the next download promise
    raceSet,            \* pendingDownloads handed to Promise.race
    winner,             \* the promise Promise.race resolved with
    yielded,            \* the tiles stream so far (tile ids)
    stats,              \* statsPromise: None until resolved
    cancelCalled,       \* history: cancel() took effect
    errors,             \* downloadTiles: errors (in DownloadStats.errors)
    failedTiles,        \* downloadTiles: failedTiles (in DownloadStats.failedTiles)
    sincePause,         \* history: tiles yielded since the last pause()
    resumeCalled,       \* history: resume() took effect
    dequeued,           \* createTileIterator: tile of `await queue.dequeue()`
    dl,                 \* a call of downloadTiles up to its return value
    wk,                 \* the worker: one download id, its timer and its messages
    rl,                 \* the RateLimiter runs (clock, lastAcquire, callers)
    rc,                 \* a RetryController.executeWithRetry call
    cc,                 \* capabilitiesCache and the getSupportedCRS calls
    pt,                 \* a ProgressTracker with its clock
    cm,                 \* useTileDownloader in main-thread mode
    nd                  \* downloadTiles of newTileDownloader and its consumer

errVars == <<errors, failedTiles>>
auxVars == <<dl, wk>>
unitVars == <<rc, cc, pt, cm, nd>>

vars == <<concurrency, maxRetries, hasRateLimiter, tiles, state, aborted,
          progress, fmTotal, fmFailed, queue, queuePaused, pc,
          activeDownloads, completedDownloads, tasks, nextTask, raceSet,
          winner, yielded, stats, cancelCalled, errVars, sincePause, resumeCalled, dequeued, auxVars, rl, unitVars>>

cfgVars == <<concurrency, maxRetries, hasRateLimiter, tiles>>
fmVars == <<fmTotal, fmFailed>>
genSets == <<activeDownloads, completedDownloads, tasks, nextTask, raceSet, winner>>

\* ------------------------------------------------------------ downloadTiles
\* new DownloadQueue(Math.min(config.concurrency ?? 6, 6), config.rateLimit)
QueueConcurrency(c) == Min(IF c = None THEN DefaultConcurrency ELSE c[1], MaxConcurrency)

\* new ProgressTracker(totalTiles, estimatedBytes)
NewProgress(total) ==
    [state |-> DOWNLOADING, downloaded |-> 0, failed |-> 0, pending |-> total,
     retrying |-> 0, totalTiles |-> total, downloadedBytes |-> 0]

TileSeq(n) == [i \in 1..n |-> i]

\* the RateLimiter part is idle in the download runs
RlIdle == [on |-> FALSE]

\* the call of downloadTiles and the worker are not part of the download runs
DlOff == [on |-> FALSE]
WkOff == [on |-> FALSE]

\* the classes and callers modelled one at a time are not part of them either
UnitOff == [on |-> FALSE]
UnitsOff ==
    /\ rc = UnitOff
    /\ cc = UnitOff
    /\ pt = UnitOff
    /\ cm = UnitOff
    /\ nd = UnitOff

InitRun(c, r, lim, n) ==
    /\ concurrency = QueueConcurrency(c)
    /\ maxRetries = r
    /\ hasRateLimiter = lim
    /\ tiles = TileSeq(n)
    /\ state = IDLE
    /\ aborted = FALSE
    /\ progress = NewProgress(n)
    /\ fmTotal = 0
    /\ fmFailed = 0
    /\ queue = <<>>
    /\ queuePaused = FALSE
    /\ pc = "init"
    /\ activeDownloads = {}
    /\ completedDownloads = {}
    /\ tasks = <<>>
    /\ nextTask = 1
    /\ raceSet = {}
    /\ winner = 0
    /\ yielded = <<>>
    /\ stats = None
    /\ cancelCalled = FALSE
    /\ errors = <<>>
    /\ failedTiles = <<>>
    /\ sincePause = 0
    /\ resumeCalled = FALSE
    /\ dequeued = None
    /\ dl = DlOff
    /\ wk = WkOff
    /\ rl = RlIdle
    /\ UnitsOff

\* the state when downloadTiles returns its handle: short runs over every
\* configuration, and one long run that can reach the failure threshold
Init ==
    \/ \E c \in ConcurrencyInputs, r \in 0..MaxRetries, lim \in BOOLEAN, n \in 1..MaxTiles :
           InitRun(c, r, lim, n)
    \/ InitRun(None, 0, FALSE, LongRunTiles)

\* ------------------------------------------------------------ event loop
RunningPcs == {"top", "body"}
\* the wait for 'resume', `await queue.dequeue()` or the race has settled and
\* the generator has not continued yet
SettledPcs == {"resumed", "dequeue", "resolved"}
\* code other than the generator may run: the caller's next statement, a
\* promise reaction, an event
EnvTurn == pc \notin RunningPcs /\ pc # "spin" /\ ~rl.on
\* a timer callback may run: no continuation of the generator is queued
TimerTurn == EnvTurn /\ pc \notin SettledPcs

\* --------------------------------------------------------- classifyError
\* the value thrown by one fetch attempt of downloadTile
ErrorOf(o) ==
    CASE o = "network" -> [cls |-> "TypeError", name |-> "TypeError", msgFetch |-> TRUE, msgCORS |-> FALSE]
      [] o = "timeout" -> [cls |-> "DOMException", name |-> "AbortError", msgFetch |-> FALSE, msgCORS |-> FALSE]
      [] o = "abort" -> [cls |-> "DOMException", name |-> "AbortError", msgFetch |-> FALSE, msgCORS |-> FALSE]
      [] o = "cors" -> [cls |-> "Error", name |-> "Error", msgFetch |-> FALSE, msgCORS |-> TRUE]
      [] OTHER -> [cls |-> "Error", name |-> "Error", msgFetch |-> FALSE, msgCORS |-> FALSE]

NonRetryableHttp == {400, 401, 403, 404, 410}

HttpRetryable(status) == IF status \in NonRetryableHttp THEN FALSE ELSE TRUE

classifyError(error, response) ==
    IF error.cls = "TypeError" /\ error.msgFetch
    THEN [errorType |-> "network", retryable |-> TRUE]
    ELSE IF error.cls = "DOMException" /\ error.name = "AbortError"
    THEN [errorType |-> "timeout", retryable |-> TRUE]
    ELSE IF response # None /\ ~response[1].ok
    THEN [errorType |-> "http", retryable |-> HttpRetryable(response[1].status)]
    ELSE IF error.msgCORS
    THEN [errorType |-> "cors", retryable |-> FALSE]
    ELSE [errorType |-> "unknown", retryable |-> TRUE]

\* ------------------------------------------------------- ProgressTracker
\* recordSuccess that forgets downloaded++
recordSuccess_SkipCount(p, sizeBytes) ==
    [p EXCEPT !.pending = @ - 1, !.downloadedBytes = @ + sizeBytes]

recordSuccess(p, sizeBytes) ==
    [p EXCEPT !.downloaded = @ + 1, !.pending = @ - 1, !.downloadedBytes = @ + sizeBytes]

\* recordFailure that forgets pending--
recordFailure_KeepPending(p) ==
    [p EXCEPT !.failed = @ + 1]

recordFailure(p) ==
    [p EXCEPT !.failed = @ + 1, !.pending = @ - 1]

\* -------------------------------------------------------- FailureMonitor
\* a comparison that also trips at exactly the threshold
failureRatioAbove_OrEqual == fmFailed * ThresholdDen >= ThresholdNum * fmTotal

\* this.failureRatio > this.threshold, in integers (total > 0 where it is used)
failureRatioAbove == fmFailed * ThresholdDen > ThresholdNum * fmTotal

\* a failure monitor without the floor of ten outcomes
shouldAbort_NoFloor == fmFailed * ThresholdDen > ThresholdNum * fmTotal

\* FailureMonitor.shouldAbort
shouldAbort ==
    IF fmTotal < MinAttempts THEN FALSE
    ELSE failureRatioAbove

\* ---------------------------------------------------- DownloadController
\* a cancel() that returns early only when completed
isTerminalForCancel_OnlyCompleted(s) == s = COMPLETED

isTerminalForCancel(s) == s = COMPLETED \/ s = CANCELLED

\* DownloadController.cancel on state s and signal a: the new state and signal
\* and whether the 'cancel' and 'stateChange' events were emitted
cancel(s, a) ==
    IF isTerminalForCancel(s)
    THEN [state |-> s, aborted |-> a, emitted |-> FALSE]
    ELSE [state |-> CANCELLED, aborted |-> TRUE, emitted |-> TRUE]

\* -------------------------------------------------------------- the tasks
\* downloadTile(url, abortSignal): combinedSignal is the shared signal only
\* when it is already aborted at the call, else the private timeout signal
StartFetch(task) ==
    [task EXCEPT !.phase = "fetching", !.calls = @ + 1, !.shared = aborted,
                 !.againAfterCancel = @ \/ task.atCancel]

NewTask(tile) ==
    [tile |-> tile, phase |-> "acquire", attempt |-> 0, calls |-> 0, shared |-> FALSE,
     result |-> "none", error |-> "none", last |-> "none",
     atCancel |-> FALSE, againAfterCancel |-> FALSE]

\* the promise the dispatch creates: it first awaits
\* queue.acquireRateLimit(), with or without a rate limiter, so downloadTile
\* is called in a later turn
SpawnTask(tile) == NewTask(tile)

\* a loop that ends as soon as no download is in flight
LoopCond_ActiveOnly == activeDownloads # {}

\* while (queue.hasMore() || activeDownloads.size > 0)
LoopCond == Len(queue) > 0 \/ activeDownloads # {}

AtBody == pc = "body" \/ (pc = "top" /\ LoopCond /\ state # PAUSED)

\* ------------------------------------------------------ the consumer
\* the consumer calls next(): the first call runs the generator from its
\* start (enqueue every tile, setState(DOWNLOADING)), a later one resumes it
\* after the yield
ConsumerPull ==
    /\ pc \in {"init", "yielded"}
    /\ ~rl.on
    /\ IF pc = "init"
       THEN /\ queue' = queue \o tiles
            /\ state' = DOWNLOADING
       ELSE UNCHANGED <<queue, state>>
    /\ pc' = "top"
    /\ UNCHANGED <<cfgVars, aborted, progress, fmVars, queuePaused, genSets,
                   yielded, stats, cancelCalled, errVars, sincePause, resumeCalled, dequeued, auxVars, rl, unitVars>>

\* ------------------------------------------------ createTileIterator
\* the while condition is false: setState(COMPLETED) on both objects
GenComplete ==
    /\ pc = "top"
    /\ ~LoopCond
    /\ state' = COMPLETED
    /\ progress' = [progress EXCEPT !.state = COMPLETED]
    /\ pc' = "done"
    /\ UNCHANGED <<cfgVars, aborted, fmVars, queue, queuePaused, genSets,
                   yielded, stats, cancelCalled, errVars, sincePause, resumeCalled, dequeued, auxVars, rl, unitVars>>

\* while (controller.isPaused()): wait for the 'resume' event
GenPauseWait ==
    /\ pc = "top"
    /\ LoopCond
    /\ state = PAUSED
    /\ queuePaused' = TRUE
    /\ progress' = [progress EXCEPT !.state = PAUSED]
    /\ pc' = "waitResume"
    /\ UNCHANGED <<cfgVars, state, aborted, fmVars, queue, genSets,
                   yielded, stats, cancelCalled, errVars, sincePause, resumeCalled, dequeued, auxVars, rl, unitVars>>

\* the resumeHandler resolved the wait: queue.resume(), setState(DOWNLOADING)
GenResumed ==
    /\ pc = "resumed"
    /\ IF state = PAUSED
       THEN /\ queuePaused' = TRUE
            /\ progress' = [progress EXCEPT !.state = PAUSED]
            /\ pc' = "waitResume"
       ELSE /\ queuePaused' = FALSE
            /\ progress' = [progress EXCEPT !.state = DOWNLOADING]
            /\ pc' = "body"
    /\ UNCHANGED <<cfgVars, state, aborted, fmVars, queue, genSets,
                   yielded, stats, cancelCalled, errVars, sincePause, resumeCalled, dequeued, auxVars, rl, unitVars>>

\* the cancellation branch leaving the loop with break instead of return, so
\* that the run is then marked completed
GenCancelled_Break ==
    /\ (pc = "body" \/ (pc = "top" /\ (Len(queue) > 0 \/ activeDownloads # {}) /\ state # PAUSED))
    /\ state = CANCELLED
    /\ queue' = <<>>
    /\ state' = COMPLETED
    /\ progress' = [progress EXCEPT !.state = COMPLETED]
    /\ pc' = "done"
    /\ UNCHANGED <<cfgVars, aborted, fmVars, queuePaused, genSets,
                   yielded, stats, cancelCalled, errVars, sincePause, resumeCalled, dequeued, auxVars, rl, unitVars>>

\* if (controller.isCancelled()) { queue.clear(); ...; return }
GenCancelled ==
    /\ AtBody
    /\ state = CANCELLED
    /\ queue' = <<>>
    /\ progress' = [progress EXCEPT !.state = CANCELLED]
    /\ pc' = "done"
    /\ UNCHANGED <<cfgVars, state, aborted, fmVars, queuePaused, genSets,
                   yielded, stats, cancelCalled, errVars, sincePause, resumeCalled, dequeued, auxVars, rl, unitVars>>

\* if (failureMonitor.shouldAbort()) { controller.cancel(); ...; throw }
GenAbort ==
    /\ AtBody
    /\ state # CANCELLED
    /\ shouldAbort
    /\ state' = cancel(state, aborted).state
    /\ aborted' = cancel(state, aborted).aborted
    /\ progress' = [progress EXCEPT !.state = FAILED]
    /\ pc' = "threw"
    /\ UNCHANGED <<cfgVars, fmVars, queue, queuePaused, genSets,
                   yielded, stats, cancelCalled, errVars, sincePause, resumeCalled, dequeued, auxVars, rl, unitVars>>

\* a dispatch guard without the concurrency limit
CanDispatch_NoLimit == Len(queue) > 0

\* the dispatch guard of the scheduler
CanDispatch == Cardinality(activeDownloads) < concurrency /\ Len(queue) > 0

\* a dequeue that reads the head without removing it
dequeue_Peek(q) == q

\* DownloadQueue.dequeue: queue.shift()
dequeue(q) == Tail(q)

\* past the guards of the loop: with room for a download the generator
\* takes the head of the queue and is suspended in `await queue.dequeue()`;
\* else it goes on to Promise.race over the downloads that are active and not
\* yet completed, and with nothing to wait for the loop runs on without ever
\* reaching an await
GenSchedule ==
    /\ AtBody
    /\ state # CANCELLED
    /\ ~shouldAbort
    /\ IF CanDispatch
       THEN /\ queue' = dequeue(queue)
            /\ dequeued' = Some(Head(queue))
            /\ pc' = "dequeue"
            /\ UNCHANGED raceSet
       ELSE /\ raceSet' = activeDownloads \ completedDownloads
            /\ pc' = IF raceSet' # {} THEN "race" ELSE "spin"
            /\ UNCHANGED <<queue, dequeued>>
    /\ UNCHANGED <<cfgVars, state, aborted, progress, fmVars, queuePaused, tasks,
                   activeDownloads, nextTask,
                   completedDownloads, winner, yielded, stats, cancelCalled, errVars, sincePause, resumeCalled, auxVars, rl, unitVars>>

\* `await queue.dequeue()` continues: the download promise is created and
\* added to activeDownloads whatever the state is by now, then Promise.race
GenDispatch ==
    /\ pc = "dequeue"
    /\ tasks' = (nextTask :> SpawnTask(dequeued[1])) @@ tasks
    /\ activeDownloads' = activeDownloads \cup {nextTask}
    /\ nextTask' = nextTask + 1
    /\ dequeued' = None
    /\ raceSet' = activeDownloads' \ completedDownloads
    /\ pc' = IF raceSet' # {} THEN "race" ELSE "spin"
    /\ UNCHANGED <<cfgVars, state, aborted, progress, fmVars, queue, queuePaused,
                   completedDownloads, winner, yielded, stats, cancelCalled, errVars, sincePause, resumeCalled, auxVars, rl, unitVars>>

Drop(f, k) == [x \in DOMAIN f \ {k} |-> f[x]]

\* a generator that counts a tile settled during a pause but does not yield it
GenYield_DropWhilePaused ==
    /\ pc = "resolved"
    /\ tasks[winner].result = "ok"
    /\ completedDownloads' = completedDownloads \cup {winner}
    /\ progress' = recordSuccess(progress, TileSize(tasks[winner].tile))
    /\ fmTotal' = fmTotal + 1
    /\ fmFailed' = fmFailed
    /\ yielded' = IF state = PAUSED THEN yielded ELSE Append(yielded, tasks[winner].tile)
    /\ sincePause' = IF state = PAUSED THEN sincePause + 1 ELSE sincePause
    /\ tasks' = Drop(tasks, winner)
    /\ pc' = "yielded"
    /\ UNCHANGED <<cfgVars, state, aborted, queue, queuePaused, activeDownloads,
                   nextTask, raceSet, winner, stats, cancelCalled, errVars, resumeCalled, dequeued, auxVars, rl, unitVars>>

\* the race resolved with a tile: recordSuccess, recordAttempt(true), yield
GenYield ==
    /\ pc = "resolved"
    /\ tasks[winner].result = "ok"
    /\ completedDownloads' = completedDownloads \cup {winner}
    /\ progress' = recordSuccess(progress, TileSize(tasks[winner].tile))
    /\ fmTotal' = fmTotal + 1
    /\ fmFailed' = fmFailed
    /\ yielded' = Append(yielded, tasks[winner].tile)
    /\ sincePause' = IF state = PAUSED THEN sincePause + 1 ELSE sincePause
    /\ tasks' = Drop(tasks, winner)
    /\ pc' = "yielded"
    /\ UNCHANGED <<cfgVars, state, aborted, queue, queuePaused, activeDownloads,
                   nextTask, raceSet, winner, stats, cancelCalled, errVars, resumeCalled, dequeued, auxVars, rl, unitVars>>

\* the race resolved with null: recordFailure, recordAttempt(false)
GenRecordFailure ==
    /\ pc = "resolved"
    /\ tasks[winner].result = "null"
    /\ completedDownloads' = completedDownloads \cup {winner}
    /\ progress' = recordFailure(progress)
    /\ fmTotal' = fmTotal + 1
    /\ fmFailed' = fmFailed + 1
    /\ tasks' = Drop(tasks, winner)
    /\ pc' = "top"
    /\ UNCHANGED <<cfgVars, state, aborted, queue, queuePaused, activeDownloads,
                   nextTask, raceSet, winner, yielded, stats, cancelCalled, errVars, sincePause, resumeCalled, dequeued, auxVars, rl, unitVars>>

\* ------------------------------------------------------------ the tasks
\* queue.acquireRateLimit() returned: downloadTileWithRetry makes its first
\* call of downloadTile
TaskAcquired(t) ==
    /\ EnvTurn
    /\ t \in DOMAIN tasks
    /\ tasks[t].phase = "acquire"
    /\ tasks' = [tasks EXCEPT ![t] = StartFetch(@)]
    /\ UNCHANGED <<cfgVars, state, aborted, progress, fmVars, queue, queuePaused, pc,
                   activeDownloads, completedDownloads, nextTask, raceSet, winner,
                   yielded, stats, cancelCalled, errVars, sincePause, resumeCalled, dequeued, auxVars, rl, unitVars>>

\* what one fetch of a task can end in: a fetch given the already aborted
\* shared signal rejects with an AbortError, any other fetch is decided by
\* the server, the network and the private 10 s timeout
OutcomesOf(task) == IF task.shared THEN {"abort"} ELSE FetchOutcomes

\* the download promise settles: its reaction removes it from
\* activeDownloads, then the race the generator awaits resolves with it
Settle(t, settled) ==
    /\ tasks' = [tasks EXCEPT ![t] = settled]
    /\ activeDownloads' = activeDownloads \ {t}
    /\ IF pc = "race" /\ t \in raceSet
       THEN pc' = "resolved" /\ winner' = t
       ELSE UNCHANGED <<pc, winner>>
    /\ UNCHANGED <<cfgVars, state, aborted, progress, fmVars, queue, queuePaused,
                   completedDownloads, nextTask, raceSet, yielded, stats, cancelCalled, errVars, sincePause, resumeCalled, dequeued, auxVars, rl, unitVars>>

\* fetch returned an ok response with an image body
TaskFetchOk(t) ==
    /\ EnvTurn
    /\ t \in DOMAIN tasks
    /\ tasks[t].phase = "fetching"
    /\ "ok" \in OutcomesOf(tasks[t])
    /\ Settle(t, [tasks[t] EXCEPT !.phase = "settled", !.result = "ok", !.last = "ok"])

\* a retry loop that gives up one attempt early
GivesUp_EarlyByOne(info, attempt) == ~info.retryable \/ attempt >= maxRetries - 1

\* RetryController.executeWithRetry: break on a non-retryable error or when
\* the retries are used up
GivesUp(info, attempt) == ~info.retryable \/ attempt >= maxRetries

\* the attempt threw and executeWithRetry gives up: downloadTileWithRetry
\* returns null
TaskFetchFail(t, o) ==
    /\ EnvTurn
    /\ t \in DOMAIN tasks
    /\ tasks[t].phase = "fetching"
    /\ o \in OutcomesOf(tasks[t]) \ {"ok"}
    /\ LET info == classifyError(ErrorOf(o), None) IN
       /\ GivesUp(info, tasks[t].attempt)
       /\ Settle(t, [tasks[t] EXCEPT !.phase = "settled", !.result = "null",
                                     !.error = info.errorType, !.last = o])

\* the attempt threw and executeWithRetry waits for the backoff delay
TaskFetchBackoff(t, o) ==
    /\ EnvTurn
    /\ t \in DOMAIN tasks
    /\ tasks[t].phase = "fetching"
    /\ o \in OutcomesOf(tasks[t]) \ {"ok"}
    /\ LET info == classifyError(ErrorOf(o), None) IN
       /\ ~GivesUp(info, tasks[t].attempt)
       /\ tasks' = [tasks EXCEPT ![t] = [@ EXCEPT !.phase = "backoff",
                                                 !.error = info.errorType, !.last = o]]
    /\ UNCHANGED <<cfgVars, state, aborted, progress, fmVars, queue, queuePaused, pc,
                   activeDownloads, completedDownloads, nextTask, raceSet, winner,
                   yielded, stats, cancelCalled, errVars, sincePause, resumeCalled, dequeued, auxVars, rl, unitVars>>

\* a retry that forgets attempt++
TaskRetry_KeepAttempt(t) ==
    /\ pc \notin RunningPcs /\ pc # "spin" /\ ~rl.on
    /\ t \in DOMAIN tasks
    /\ tasks[t].phase = "backoff"
    /\ tasks' = [tasks EXCEPT ![t] = [@ EXCEPT !.phase = "fetching", !.calls = @ + 1,
                                              !.shared = aborted]]
    /\ UNCHANGED <<cfgVars, state, aborted, progress, fmVars, queue, queuePaused, pc,
                   activeDownloads, completedDownloads, nextTask, raceSet, winner,
                   yielded, stats, cancelCalled, errVars, sincePause, resumeCalled, dequeued, auxVars, rl, unitVars>>

\* the backoff timer fired: attempt++ and the next call of downloadTile
TaskRetry(t) ==
    /\ EnvTurn
    /\ t \in DOMAIN tasks
    /\ tasks[t].phase = "backoff"
    /\ tasks' = [tasks EXCEPT ![t] = StartFetch([@ EXCEPT !.attempt = @ + 1])]
    /\ UNCHANGED <<cfgVars, state, aborted, progress, fmVars, queue, queuePaused, pc,
                   activeDownloads, completedDownloads, nextTask, raceSet, winner,
                   yielded, stats, cancelCalled, errVars, sincePause, resumeCalled, dequeued, auxVars, rl, unitVars>>

\* ------------------------------------------------- the control functions
\* a pause() without the check of the state
pause_AnyState(s) == [state |-> PAUSED, threw |-> FALSE, emitted |-> TRUE]

\* DownloadController.pause: throws in every state but downloading
pause(s) ==
    IF s # DOWNLOADING
    THEN [state |-> s, threw |-> TRUE, emitted |-> FALSE]
    ELSE [state |-> PAUSED, threw |-> FALSE, emitted |-> TRUE]

\* DownloadController.resume: throws in every state but paused
resume(s) ==
    IF s # PAUSED
    THEN [state |-> s, threw |-> TRUE, emitted |-> FALSE]
    ELSE [state |-> DOWNLOADING, threw |-> FALSE, emitted |-> TRUE]

\* a call of pause() that does not throw
Pause ==
    /\ EnvTurn
    /\ ~pause(state).threw
    /\ state' = pause(state).state
    /\ sincePause' = 0
    /\ UNCHANGED <<cfgVars, aborted, progress, fmVars, queue, queuePaused, pc, genSets,
                   yielded, stats, cancelCalled, errVars, resumeCalled, dequeued, auxVars, rl, unitVars>>

\* a call of resume() that does not throw; emit('resume') runs the
\* generator's resumeHandler
Resume ==
    /\ EnvTurn
    /\ ~resume(state).threw
    /\ state' = resume(state).state
    /\ pc' = IF pc = "waitResume" THEN "resumed" ELSE pc
    /\ resumeCalled' = TRUE
    /\ UNCHANGED <<cfgVars, aborted, progress, fmVars, queue, queuePaused, genSets,
                   yielded, stats, cancelCalled, errVars, sincePause, dequeued, auxVars, rl, unitVars>>

\* DownloadController.cancel: returns at once when completed or cancelled
Cancel ==
    /\ EnvTurn
    /\ ~isTerminalForCancel(state)
    /\ state' = cancel(state, aborted).state
    /\ aborted' = cancel(state, aborted).aborted
    /\ cancelCalled' = TRUE
    /\ tasks' = [t \in DOMAIN tasks |->
                    IF tasks[t].phase = "fetching"
                    THEN [tasks[t] EXCEPT !.atCancel = TRUE] ELSE tasks[t]]
    /\ UNCHANGED <<cfgVars, progress, fmVars, queue, queuePaused, pc, activeDownloads,
                   completedDownloads, nextTask, raceSet, winner, yielded, stats, errVars, sincePause, resumeCalled, dequeued, auxVars, rl, unitVars>>

\* ------------------------------------------------------- the stats promise
IsTerminal(s) == s = COMPLETED \/ s = CANCELLED \/ s = FAILED

StatsOf(p) ==
    [successful |-> p.downloaded, failed |-> p.failed, actualSize |-> p.downloadedBytes,
     totalTiles |-> p.totalTiles, state |-> state,
     errors |-> errors, failedTiles |-> failedTiles, settled |-> "resolved"]

\* the checkCompletion interval callback of statsPromise
StatsPoll ==
    /\ TimerTurn
    /\ stats = None
    /\ IsTerminal(state)
    /\ stats' = Some(StatsOf(progress))
    /\ UNCHANGED <<cfgVars, state, aborted, progress, fmVars, queue, queuePaused, pc,
                   genSets, yielded, cancelCalled, errVars, sincePause, resumeCalled, dequeued, auxVars, rl, unitVars>>

\* ------------------------------------------------------------ RateLimiter
\* The limiter on its own, under callers that may overlap.  Time is the
\* integer millisecond clock Date.now(); a setTimeout callback runs at or
\* after its due time.
NumCallers == 2
RlCallers == 1..NumCallers

\* minInterval = 1000 / tilesPerSecond
MinInterval(tilesPerSecond) == 1000 \div tilesPerSecond

\* the download run is not started in the rate-limiter runs
MainOff ==
    /\ concurrency = DefaultConcurrency
    /\ maxRetries = 0
    /\ hasRateLimiter = TRUE
    /\ tiles = <<>>
    /\ state = IDLE
    /\ aborted = FALSE
    /\ progress = NewProgress(0)
    /\ fmTotal = 0
    /\ fmFailed = 0
    /\ queue = <<>>
    /\ queuePaused = FALSE
    /\ pc = "off"
    /\ activeDownloads = {}
    /\ completedDownloads = {}
    /\ tasks = <<>>
    /\ nextTask = 1
    /\ raceSet = {}
    /\ winner = 0
    /\ yielded = <<>>
    /\ stats = None
    /\ cancelCalled = FALSE
    /\ errors = <<>>
    /\ failedTiles = <<>>
    /\ sincePause = 0
    /\ resumeCalled = FALSE
    /\ dequeued = None

mainVars == <<concurrency, maxRetries, hasRateLimiter, tiles, state, aborted,
              progress, fmTotal, fmFailed, queue, queuePaused, pc,
              activeDownloads, completedDownloads, tasks, nextTask, raceSet,
              winner, yielded, stats, cancelCalled, errVars, sincePause, resumeCalled, dequeued>>

\* new RateLimiter(tilesPerSecond): lastAcquire = Date.now()
InitRL ==
    /\ MainOff
    /\ UnitsOff
    /\ dl = DlOff
    /\ wk = WkOff
    /\ \E r \in RateInputs :
          rl = [on |-> TRUE, now |-> 0, lastAcquire |-> 0, minInterval |-> MinInterval(r),
                callers |-> [c \in RlCallers |-> [phase |-> "idle", due |-> 0]],
                prev |-> None, gap |-> None]

\* acquire() returns: this.lastAcquire = Date.now()
RlReturn(r, c) ==
    [r EXCEPT !.lastAcquire = r.now,
              !.callers[c] = [phase |-> "idle", due |-> 0],
              !.gap = IF r.prev = None THEN None ELSE Some(r.now - r.prev[1]),
              !.prev = Some(r.now)]

\* the delay acquire() sleeps for, none when the interval has elapsed
RlDelay(r) ==
    LET elapsed == r.now - r.lastAcquire IN
    IF elapsed < r.minInterval THEN Some(r.minInterval - elapsed) ELSE None

\* a task calls acquire(): it returns in the same turn or sets a timer
RlAcquire(c) ==
    /\ rl.on
    /\ rl.callers[c].phase = "idle"
    /\ rl' = IF RlDelay(rl) = None
             THEN RlReturn(rl, c)
             ELSE [rl EXCEPT !.callers[c] = [phase |-> "sleeping", due |-> rl.now + RlDelay(rl)[1]]]
    /\ UNCHANGED <<mainVars, auxVars, unitVars>>

\* the timer of a sleeping acquire() fires
RlWake(c) ==
    /\ rl.on
    /\ rl.callers[c].phase = "sleeping"
    /\ rl.now >= rl.callers[c].due
    /\ rl' = RlReturn(rl, c)
    /\ UNCHANGED <<mainVars, auxVars, unitVars>>

\* a millisecond passes
RlTick ==
    /\ rl.on
    /\ rl.now < MaxClock
    /\ rl' = [rl EXCEPT !.now = @ + 1]
    /\ UNCHANGED <<mainVars, auxVars, unitVars>>

NextRL ==
    \/ \E c \in RlCallers : RlAcquire(c)
    \/ \E c \in RlCallers : RlWake(c)
    \/ RlTick

SpecRL == InitRL /\ [][NextRL]_vars

\* ------------------------------------------------ a call of downloadTiles
\* The steps of downloadTiles from its call to its return value or its
\* exception, with the requests it issues on the way.  The library calls
\* (projection registry, tile grid) are given by small tables.
MaxZoom == 1

ServiceName == "osm"
SampleCount == 3
FallbackTileSize == 15 * 1024
SampledTileSize == 1
DefaultCRS == "EPSG:3857"

\* getProjection(crs) of the map library knows these codes
KnownProjections == {"EPSG:3857", "EPSG:4326"}

\* placeholders missing from config.url
UrlInputs == {{}, {"x"}, {"y", "z"}}
CrsInputs == {None, Some("EPSG:3857"), Some("EPSG:4326"), Some("EPSG:9999")}
BBoxInputs == {"cell", "world"}
SchemeInputs == {"xyz", "tms"}

\* what the capabilities endpoint answers: the fetch rejects, or it resolves
\* with a body in which the parser finds these CRS elements
CapResponses == {"network", "nonOk", "malformed", "noCrs", "only4326", "both", "other"}

CrsListOf(resp) ==
    CASE resp = "only4326" -> <<"EPSG:4326">>
      [] resp = "both" -> <<"EPSG:4326", "EPSG:3857">>
      [] resp = "other" -> <<"EPSG:25832">>
      [] OTHER -> <<>>

\* parseWMSCapabilities / parseWMTSCapabilities: one request; only a
\* rejected fetch throws, every body is parsed into a (possibly empty) list
parseCapabilities(resp) ==
    IF resp = "network"
    THEN [threw |-> TRUE, supportedCRS |-> <<>>]
    ELSE [threw |-> FALSE, supportedCRS |-> CrsListOf(resp)]

Includes(seq, v) == \E i \in DOMAIN seq : seq[i] = v

\* the preference EPSG:3857, then EPSG:4326, then supportedCRS[0]
PickDefault(supportedCRS) ==
    IF Includes(supportedCRS, "EPSG:3857") THEN "EPSG:3857"
    ELSE IF Includes(supportedCRS, "EPSG:4326") THEN "EPSG:4326"
    ELSE IF Len(supportedCRS) > 0 THEN supportedCRS[1]
    ELSE "undefined"

FallbackCRS == [supportedCRS |-> <<"EPSG:3857", "EPSG:4326">>, default |-> "EPSG:3857",
                source |-> "assumed"]

FromCapabilities(supportedCRS) ==
    [supportedCRS |-> supportedCRS, default |-> PickDefault(supportedCRS),
     source |-> "capabilities"]

\* getSupportedCRS without a cache entry: the result and the number of
\* requests issued
getSupportedCRS(type, wms, wmts) ==
    LET first == parseCapabilities(IF type = "wmts" THEN wmts ELSE wms)
        second == parseCapabilities(wmts)
    IN IF type \in {"wms", "wmts"}
       THEN [result |-> IF first.threw THEN FallbackCRS
                        ELSE FromCapabilities(first.supportedCRS),
             requests |-> 1]
       ELSE IF ~first.threw
            THEN [result |-> FromCapabilities(first.supportedCRS), requests |-> 1]
            ELSE [result |-> IF second.threw THEN FallbackCRS
                             ELSE FromCapabilities(second.supportedCRS),
                  requests |-> 2]

CapsInputs ==
    {None} \cup
    {Some([type |-> t, wms |-> a, wmts |-> b]) :
        <<t, a, b>> \in {x \in {"wms", "wmts", "unknown"} \X CapResponses \X CapResponses :
                            /\ x[1] = "wms" => x[3] = "network"
                            /\ x[1] = "wmts" => x[2] = "network"
                            /\ (x[1] = "unknown" /\ x[2] # "network") => x[3] = "network"}}

RECURSIVE Pow2(_)
Pow2(z) == IF z <= 0 THEN 1 ELSE 2 * Pow2(z - 1)

\* convertYCoordinate
convertYCoordinate(y, z, tileScheme) ==
    IF tileScheme = "tms" THEN Pow2(z) - 1 - y ELSE y

\* tileGrid.getTileRangeForExtentAndZ for the two boxes: one cell at every
\* zoom, or the whole grid
TileRangeFor(bbox, z) ==
    LET hi == IF bbox = "world" THEN Pow2(z) - 1 ELSE 0 IN
    [z |-> z, minX |-> 0, maxX |-> hi, minY |-> 0, maxY |-> hi,
     count |-> (hi - 0 + 1) * (hi - 0 + 1)]

\* bboxToTileRanges: for (z = minZoom; z <= maxZoom; z++)
bboxToTileRanges(bbox, minZoom, maxZoom) ==
    IF minZoom > maxZoom THEN <<>>
    ELSE [i \in 1..(maxZoom - minZoom + 1) |-> TileRangeFor(bbox, minZoom + i - 1)]

\* generateTileCoordinates: x in the outer loop, y in the inner loop
generateTileCoordinates(range, tileScheme) ==
    LET ny == range.maxY - range.minY + 1 IN
    [k \in 1..range.count |->
        [serviceName |-> ServiceName, z |-> range.z,
         x |-> range.minX + ((k - 1) \div ny),
         y |-> convertYCoordinate(range.minY + ((k - 1) % ny), range.z, tileScheme)]]

RECURSIVE AllTiles(_, _)
AllTiles(ranges, tileScheme) ==
    IF ranges = <<>> THEN <<>>
    ELSE generateTileCoordinates(Head(ranges), tileScheme) \o AllTiles(Tail(ranges), tileScheme)

\* the key of a tile in the cache object: cache[serviceName][z][x][y]
KeyOf(tile) == <<tile.serviceName, tile.z, tile.x, tile.y>>

\* checkTileExists
checkTileExists(tile, cache) ==
    IF cache = None THEN FALSE ELSE KeyOf(tile) \in cache[1]

\* a deduplication that filters nothing
filterExistingTiles_KeepAll(ts, cache) == ts

\* filterExistingTiles
filterExistingTiles(ts, cache) ==
    IF cache = None THEN ts
    ELSE SelectSeq(ts, LAMBDA tile : ~checkTileExists(tile, cache))

\* selectSampleTiles: Math.min(count, availableX * availableY) samples
RECURSIVE SampleFetches(_)
SampleFetches(ranges) ==
    IF ranges = <<>> THEN 0
    ELSE Min(SampleCount, Head(ranges).count) + SampleFetches(Tail(ranges))

\* estimateTileSize: the sum over the ranges of tile size * range.count
RECURSIVE EstimatedSize(_, _)
EstimatedSize(ranges, tileSize) ==
    IF ranges = <<>> THEN 0
    ELSE tileSize * Head(ranges).count + EstimatedSize(Tail(ranges), tileSize)

\* tilesByZoom.set(range.z, range.count) for every range
TilesByZoom(ranges) ==
    [z \in {ranges[i].z : i \in DOMAIN ranges} |->
        ranges[CHOOSE i \in DOMAIN ranges :
                   ranges[i].z = z /\ \A j \in DOMAIN ranges : ranges[j].z = z => j <= i].count]

\* existingTiles of the first call
ExistingInputs ==
    {None, Some({}),
     Some({<<ServiceName, 0, 0, 0>>}),
     Some({<<"other", 0, 0, 0>>, <<ServiceName, 1, 0, 1>>}),
     Some({<<ServiceName, 0, 0, 0>>, <<ServiceName, 1, 0, 0>>})}

\* the configurations downloadTiles is called with
DlConfigs ==
    [url : UrlInputs, crs : CrsInputs, caps : CapsInputs,
     minZoom : 0..MaxZoom, maxZoom : 0..MaxZoom, bbox : BBoxInputs,
     tileScheme : SchemeInputs, existingTiles : ExistingInputs, samplesFail : BOOLEAN]

NoRequests == [caps |-> 0, sample |-> 0]

DlStart(cfg, run, cache, first) ==
    [on |-> TRUE, run |-> run, cfg |-> cfg, pc |-> "start", crs |-> "undefined",
     ranges |-> <<>>, requests |-> NoRequests, estimatedSize |-> 0,
     capabilitiesCache |-> cache, crsCaps |-> None, result |-> None, error |-> None,
     firstExisting |-> first]

InitDL ==
    /\ MainOff
    /\ UnitsOff
    /\ wk = WkOff
    /\ rl = RlIdle
    /\ \E cfg \in DlConfigs : dl = DlStart(cfg, 1, None, cfg.existingTiles)

\* 1. validateTileURL: throws when a placeholder is missing; then
\* crs = config.crs ?? 'EPSG:3857'
DlValidate ==
    /\ dl.on
    /\ dl.pc = "start"
    /\ dl' = IF dl.cfg.url # {}
             THEN [dl EXCEPT !.pc = "threw", !.error = Some("Invalid tile URL")]
             ELSE [dl EXCEPT !.crs = IF dl.cfg.crs = None THEN DefaultCRS ELSE dl.cfg.crs[1],
                             !.pc = IF dl.cfg.caps = None THEN "grid" ELSE "caps"]
    /\ UNCHANGED <<mainVars, wk, rl, unitVars>>

\* 2. crsCaps = await getSupportedCRS(config.capabilitiesUrl), served from the
\* cache when it has the entry; crs = crsCaps.default
DlCapabilities ==
    /\ dl.on
    /\ dl.pc = "caps"
    /\ LET c == dl.cfg.caps[1]
           fresh == getSupportedCRS(c.type, c.wms, c.wmts)
           hit == dl.capabilitiesCache # None
           res == IF hit THEN dl.capabilitiesCache[1] ELSE fresh.result
       IN dl' = [dl EXCEPT !.crsCaps = Some(res),
                           !.capabilitiesCache = Some(res),
                           !.requests.caps = @ + (IF hit THEN 0 ELSE fresh.requests),
                           !.crs = res.default,
                           !.pc = "grid"]
    /\ UNCHANGED <<mainVars, wk, rl, unitVars>>

\* 2./3. createTileGrid throws for an unknown projection; bboxToTileRanges
DlTileGrid ==
    /\ dl.on
    /\ dl.pc = "grid"
    /\ dl' = IF dl.crs \notin KnownProjections
             THEN [dl EXCEPT !.pc = "threw", !.error = Some("Unknown projection")]
             ELSE [dl EXCEPT !.ranges = bboxToTileRanges(dl.cfg.bbox, dl.cfg.minZoom,
                                                         dl.cfg.maxZoom),
                             !.pc = "estimate"]
    /\ UNCHANGED <<mainVars, wk, rl, unitVars>>

\* 5. estimateTileSize: the sample fetches of every range, then the estimate
DlEstimate ==
    /\ dl.on
    /\ dl.pc = "estimate"
    /\ dl' = [dl EXCEPT !.requests.sample = @ + SampleFetches(dl.ranges),
                        !.estimatedSize =
                            EstimatedSize(dl.ranges, IF dl.cfg.samplesFail THEN FallbackTileSize
                                                     ELSE SampledTileSize),
                        !.pc = "dedup"]
    /\ UNCHANGED <<mainVars, wk, rl, unitVars>>

\* the handle returned when every tile exists already
StaticHandle ==
    [kind |-> "static", totalTiles |-> 0, estimatedSize |-> 0, tilesByZoom |-> <<>>,
     tiles |-> <<>>, state |-> COMPLETED]

\* the handle of a run: the controller is idle until the first pull
LiveHandle(tilesToDownload, ranges, estimatedSize) ==
    [kind |-> "live", totalTiles |-> Len(tilesToDownload), estimatedSize |-> estimatedSize,
     tilesByZoom |-> TilesByZoom(ranges), tiles |-> tilesToDownload, state |-> IDLE]

\* 6. - 12. generate the coordinates, remove the existing ones, return
DlDedup ==
    /\ dl.on
    /\ dl.pc = "dedup"
    /\ LET allTiles == AllTiles(dl.ranges, dl.cfg.tileScheme)
           tilesToDownload == filterExistingTiles(allTiles, dl.cfg.existingTiles)
       IN dl' = [dl EXCEPT !.result = Some(IF Len(tilesToDownload) = 0 THEN StaticHandle
                                           ELSE LiveHandle(tilesToDownload, dl.ranges,
                                                           dl.estimatedSize)),
                           !.pc = "returned"]
    /\ UNCHANGED <<mainVars, wk, rl, unitVars>>

\* the consumer has stored every tile of a first run that completed without
\* a failure, and calls downloadTiles again with the same configuration and
\* the keys of the yielded tiles as existingTiles
DlRerun ==
    /\ dl.on
    /\ dl.pc = "returned"
    /\ dl.run = 1
    /\ LET stored == {KeyOf(dl.result[1].tiles[i]) : i \in DOMAIN dl.result[1].tiles}
       IN dl' = DlStart([dl.cfg EXCEPT !.existingTiles = Some(stored)], 2,
                        dl.capabilitiesCache, dl.firstExisting)
    /\ UNCHANGED <<mainVars, wk, rl, unitVars>>

\* pause() / resume() of the returned handle: the static handle has empty
\* functions, the handle of a run calls the controller
HandlePause(h) ==
    IF h.kind = "static" THEN [state |-> h.state, threw |-> FALSE, emitted |-> FALSE]
    ELSE pause(h.state)

HandleResume(h) ==
    IF h.kind = "static" THEN [state |-> h.state, threw |-> FALSE, emitted |-> FALSE]
    ELSE resume(h.state)

NextDL ==
    \/ DlValidate
    \/ DlCapabilities
    \/ DlTileGrid
    \/ DlEstimate
    \/ DlDedup
    \/ DlRerun

SpecDL == InitDL /\ [][NextDL]_vars

\* ------------------------------------------------------------ the worker
\* The worker's message handler and startDownload for one download id.  The
\* handle that downloadTiles returns is reduced to the state of its
\* controller, the number of tiles still in the queue, whether a fetch is in
\* flight, the counts of the failure monitor, and whether the generator sits
\* in its wait for 'resume'.  The scheduler has one download in flight at a
\* time.  Commands are message events, so a command never runs inside the
\* chain of promise reactions that follows a settled fetch.  Date in
\* milliseconds.
MaxWkTicks == 5
MaxCommands == 3
MaxWkTiles == 2

\* FailureMonitor.shouldAbort on the counts of a handle
HandleShouldAbort(h) ==
    h.total >= MinAttempts /\ h.failed * ThresholdDen > ThresholdNum * h.total

\* the download in flight settles: recordSuccess or recordFailure, and
\* failureMonitor.recordAttempt
HandleSettled(h, ok) ==
    [h EXCEPT !.inflight = FALSE, !.total = @ + 1,
              !.failed = IF ok THEN @ ELSE @ + 1]

\* createTileIterator from the top of its loop, nothing in flight: with an
\* empty queue the loop is left and the state set to completed; else the
\* pause wait, the return on the cancelled state, the failure threshold, or
\* the dispatch of the next tile
IteratorLoop(h) ==
    IF h.remaining = 0 THEN [h EXCEPT !.hstate = COMPLETED, !.stream = "ended"]
    ELSE IF h.hstate = PAUSED THEN [h EXCEPT !.parked = TRUE]
    ELSE IF h.hstate = CANCELLED THEN [h EXCEPT !.remaining = 0, !.stream = "ended"]
    ELSE IF HandleShouldAbort(h)
    THEN [h EXCEPT !.hstate = cancel(h.hstate, FALSE).state, !.stream = "threw"]
    ELSE [h EXCEPT !.remaining = @ - 1, !.inflight = TRUE]

ProgressIntervalMs == 1000
WkTickMs == 500

\* how the call of downloadTiles inside startDownload ends
WkOutcomes ==
    {<<"throws", 0>>, <<"static", 0>>}
        \cup {<<"live", n>> : n \in (1..MaxWkTiles) \cup {LongRunTiles}}

WkTerminal == {"DOWNLOAD_COMPLETE", "DOWNLOAD_ERROR", "DOWNLOAD_CANCELLED"}

\* postMessage(response): the history of the responses of the id
Post(w, type) ==
    [w EXCEPT
        !.terminals = IF type \in WkTerminal THEN @ + 1 ELSE @,
        !.lateEvent = @ \/ (w.terminals > 0 /\ type \in {"TILE_DOWNLOADED", "PROGRESS_UPDATE"}),
        !.lastUpdate = IF type = "PROGRESS_UPDATE" THEN Some(w.now) ELSE @,
        !.gap = IF type = "PROGRESS_UPDATE" /\ w.lastUpdate # None
                THEN Some(w.now - w.lastUpdate[1]) ELSE @]

InitWK ==
    /\ MainOff
    /\ UnitsOff
    /\ dl = DlOff
    /\ rl = RlIdle
    /\ wk = [on |-> TRUE, phase |-> "idle", registered |-> FALSE, hstate |-> IDLE,
             remaining |-> 0, inflight |-> FALSE, total |-> 0, failed |-> 0,
             stream |-> "none", parked |-> FALSE, intervalOn |-> FALSE, nextFire |-> 0,
             now |-> 0, commands |-> 0, terminals |-> 0, lateEvent |-> FALSE,
             lastUpdate |-> None, gap |-> None,
             cancelIgnored |-> FALSE, uncaught |-> FALSE]

\* a command may arrive when no callback of the worker is running
WkCommand == wk.on /\ wk.commands < MaxCommands

\* START_DOWNLOAD: startDownload(id, config) runs up to its first await
WkStart ==
    /\ WkCommand
    /\ wk.phase = "idle"
    /\ wk' = [wk EXCEPT !.phase = "init", !.commands = @ + 1]
    /\ UNCHANGED <<mainVars, dl, rl, unitVars>>

\* `await downloadTiles(config)` rejected: the outer catch
WkInitThrows(w) ==
    [Post(w, "DOWNLOAD_ERROR") EXCEPT !.phase = "ended", !.registered = FALSE]

\* the handle with no tile: DOWNLOAD_STARTED, setInterval, the empty stream
\* and the resolved stats are passed in one chain of microtasks
WkInitStatic(w) ==
    [Post(Post(w, "DOWNLOAD_STARTED"), "DOWNLOAD_COMPLETE") EXCEPT
        !.phase = "ended", !.registered = FALSE, !.hstate = COMPLETED]

\* a handle with n tiles: activeDownloads.set, DOWNLOAD_STARTED, setInterval,
\* and the first next() of the for await starts the generator, which
\* dispatches the first tile
WkInitLive(w, n) ==
    [Post(w, "DOWNLOAD_STARTED") EXCEPT
        !.phase = "running", !.registered = TRUE, !.hstate = DOWNLOADING,
        !.remaining = n - 1, !.inflight = TRUE, !.stream = "open",
        !.intervalOn = TRUE, !.nextFire = w.now + ProgressIntervalMs]

\* `await downloadTiles(config)` settles
WkDownloadTilesSettles ==
    /\ wk.on
    /\ wk.phase = "init"
    /\ \E o \in WkOutcomes :
          wk' = IF o[1] = "throws" THEN WkInitThrows(wk)
                ELSE IF o[1] = "static" THEN WkInitStatic(wk)
                ELSE WkInitLive(wk, o[2])
    /\ UNCHANGED <<mainVars, dl, rl, unitVars>>

\* the stream ends: startDownload goes on to `await result.stats`
WkStreamEnd(w) == [w EXCEPT !.phase = "awaitStats"]

\* the generator throws (failure threshold): the inner catch
WkStreamThrows(w) ==
    [Post(w, "DOWNLOAD_ERROR") EXCEPT
        !.phase = "ended", !.registered = FALSE, !.intervalOn = FALSE]

\* the generator runs on from the top of its loop, and startDownload with it
\* when the stream ends or throws
WkNext(w) ==
    LET h == IteratorLoop(w)
    IN IF h.stream = "ended" THEN WkStreamEnd(h)
       ELSE IF h.stream = "threw" THEN WkStreamThrows(h)
       ELSE h

\* the fetch in flight succeeds: the tile is yielded whatever the state of
\* the controller is, the for await posts TILE_DOWNLOADED and calls next()
WkTile ==
    /\ wk.on
    /\ wk.phase = "running"
    /\ wk.inflight
    /\ wk' = WkNext(Post(HandleSettled(wk, TRUE), "TILE_DOWNLOADED"))
    /\ UNCHANGED <<mainVars, dl, rl, unitVars>>

\* the fetch in flight fails for good: no tile is yielded, the generator
\* goes back to the top of its loop
WkTileFails ==
    /\ wk.on
    /\ wk.phase = "running"
    /\ wk.inflight
    /\ wk' = WkNext(HandleSettled(wk, FALSE))
    /\ UNCHANGED <<mainVars, dl, rl, unitVars>>

\* result.stats resolved: clearInterval, activeDownloads.delete,
\* DOWNLOAD_COMPLETE
WkStats ==
    /\ wk.on
    /\ wk.phase = "awaitStats"
    /\ IsTerminal(wk.hstate)
    /\ wk' = [Post(wk, "DOWNLOAD_COMPLETE") EXCEPT
                 !.phase = "ended", !.registered = FALSE, !.intervalOn = FALSE]
    /\ UNCHANGED <<mainVars, dl, rl, unitVars>>

\* the progressInterval callback: PROGRESS_UPDATE every second
WkInterval ==
    /\ wk.on
    /\ wk.intervalOn
    /\ wk.now >= wk.nextFire
    /\ wk' = [Post(wk, "PROGRESS_UPDATE") EXCEPT !.nextFire = @ + ProgressIntervalMs]
    /\ UNCHANGED <<mainVars, dl, rl, unitVars>>

\* PAUSE_DOWNLOAD: pauseDownload calls result.pause() of a registered
\* download; the controller throws outside the state downloading, and else
\* only sets the state: the generator sees it at the top of its loop
WkPause ==
    /\ WkCommand
    /\ wk' = IF ~wk.registered THEN [wk EXCEPT !.commands = @ + 1]
             ELSE IF pause(wk.hstate).threw
                  THEN [wk EXCEPT !.commands = @ + 1, !.uncaught = TRUE]
                  ELSE [wk EXCEPT !.commands = @ + 1, !.hstate = pause(wk.hstate).state]
    /\ UNCHANGED <<mainVars, dl, rl, unitVars>>

\* RESUME_DOWNLOAD: resumeDownload calls result.resume(); a generator that
\* waits for 'resume' runs on from the top of its loop
WkResume ==
    /\ WkCommand
    /\ wk' = IF ~wk.registered THEN [wk EXCEPT !.commands = @ + 1]
             ELSE IF resume(wk.hstate).threw
                  THEN [wk EXCEPT !.commands = @ + 1, !.uncaught = TRUE]
                  ELSE LET w == [wk EXCEPT !.commands = @ + 1,
                                           !.hstate = resume(wk.hstate).state,
                                           !.parked = FALSE]
                       IN IF wk.parked THEN WkNext(w) ELSE w
    /\ UNCHANGED <<mainVars, dl, rl, unitVars>>

\* cancelDownload: only for a download in activeDownloads
cancelDownload(w) ==
    IF w.registered
    THEN [Post(w, "DOWNLOAD_CANCELLED") EXCEPT
             !.hstate = cancel(w.hstate, FALSE).state, !.registered = FALSE]
    ELSE [w EXCEPT !.cancelIgnored = @ \/ w.phase \in {"init", "running", "awaitStats"}]

\* CANCEL_DOWNLOAD
WkCancel ==
    /\ WkCommand
    /\ wk' = [cancelDownload(wk) EXCEPT !.commands = @ + 1]
    /\ UNCHANGED <<mainVars, dl, rl, unitVars>>

\* getProgress: PROGRESS_UPDATE with lastProgress of a registered download
getProgress(w) ==
    IF w.registered THEN Post(w, "PROGRESS_UPDATE") ELSE w

\* GET_PROGRESS
WkGetProgress ==
    /\ WkCommand
    /\ wk' = [getProgress(wk) EXCEPT !.commands = @ + 1]
    /\ UNCHANGED <<mainVars, dl, rl, unitVars>>

\* time passes; the interval callback runs when it is due
WkTick ==
    /\ wk.on
    /\ wk.now < MaxWkTicks * WkTickMs
    /\ ~(wk.intervalOn /\ wk.now >= wk.nextFire)
    /\ wk' = [wk EXCEPT !.now = @ + WkTickMs]
    /\ UNCHANGED <<mainVars, dl, rl, unitVars>>

NextWK ==
    \/ WkStart
    \/ WkDownloadTilesSettles
    \/ WkTile
    \/ WkTileFails
    \/ WkStats
    \/ WkInterval
    \/ WkPause
    \/ WkResume
    \/ WkCancel
    \/ WkGetProgress
    \/ WkTick

SpecWK == InitWK /\ [][NextWK]_vars

\* ------------------------------------------------------ FailureMonitor
\* The FailureMonitor by itself: recordAttempt in any order, up to
\* MaxOutcomes outcomes.
MaxOutcomes == 14

InitFM ==
    /\ MainOff
    /\ UnitsOff
    /\ dl = DlOff
    /\ wk = WkOff
    /\ rl = RlIdle

\* FailureMonitor.recordAttempt(success)
FmRecordAttempt ==
    /\ pc = "off"
    /\ fmTotal < MaxOutcomes
    /\ \E success \in BOOLEAN :
          /\ fmTotal' = fmTotal + 1
          /\ fmFailed' = IF success THEN fmFailed ELSE fmFailed + 1
    /\ UNCHANGED <<cfgVars, state, aborted, progress, queue, queuePaused, pc, genSets,
                   yielded, stats, cancelCalled, errVars, sincePause, resumeCalled,
                   dequeued, auxVars, rl, unitVars>>

NextFM == FmRecordAttempt

SpecFM == InitFM /\ [][NextFM]_vars

\* ------------------------------------------- the handle of downloadTiles
\* The control functions of the handle that downloadTiles returned, called
\* in any order, with the first pull and the end of the stream.
HandleConfigs ==
    {cfg \in DlConfigs :
        /\ cfg.url = {} /\ cfg.crs = None /\ cfg.caps = None /\ ~cfg.samplesFail
        /\ cfg.minZoom = 0 /\ cfg.maxZoom = 0
        /\ cfg.bbox = "cell" /\ cfg.tileScheme = "xyz"}

\* the return value of downloadTiles for a configuration that passes the
\* validation
ResultOf(cfg) ==
    LET ranges == bboxToTileRanges(cfg.bbox, cfg.minZoom, cfg.maxZoom)
        tilesToDownload == filterExistingTiles(AllTiles(ranges, cfg.tileScheme),
                                               cfg.existingTiles)
    IN IF Len(tilesToDownload) = 0 THEN StaticHandle
       ELSE LiveHandle(tilesToDownload, ranges, EstimatedSize(ranges, SampledTileSize))

InitH ==
    /\ MainOff
    /\ UnitsOff
    /\ wk = WkOff
    /\ rl = RlIdle
    /\ \E cfg \in HandleConfigs :
          dl = [on |-> TRUE, pc |-> "handle", cfg |-> cfg, result |-> Some(ResultOf(cfg)),
                pulled |-> FALSE, ended |-> FALSE, lastCall |-> None]

\* cancel() of the returned handle
HandleCancel(h) ==
    IF h.kind = "static" THEN [state |-> h.state, threw |-> FALSE, emitted |-> FALSE]
    ELSE [state |-> cancel(h.state, FALSE).state, threw |-> FALSE,
          emitted |-> cancel(h.state, FALSE).emitted]

HandleOn == dl.on /\ dl.pc = "handle"

\* the outcome of a control call, kept with the state before and after it
Called(op, outcome) ==
    [dl EXCEPT !.result = Some([dl.result[1] EXCEPT !.state = outcome.state]),
               !.lastCall = Some([op |-> op, before |-> dl.result[1].state,
                                  after |-> outcome.state, threw |-> outcome.threw])]

HPause ==
    /\ HandleOn
    /\ dl' = Called("pause", HandlePause(dl.result[1]))
    /\ UNCHANGED <<mainVars, wk, rl, unitVars>>

HResume ==
    /\ HandleOn
    /\ dl' = Called("resume", HandleResume(dl.result[1]))
    /\ UNCHANGED <<mainVars, wk, rl, unitVars>>

HCancel ==
    /\ HandleOn
    /\ dl' = Called("cancel", HandleCancel(dl.result[1]))
    /\ UNCHANGED <<mainVars, wk, rl, unitVars>>

\* the first next() of the stream: createTileIterator starts with
\* controller.setState(DOWNLOADING); the empty generator of the static handle
\* just ends
HPull ==
    /\ HandleOn
    /\ ~dl.pulled
    /\ dl' = IF dl.result[1].kind = "static"
             THEN [dl EXCEPT !.pulled = TRUE, !.ended = TRUE]
             ELSE [dl EXCEPT !.pulled = TRUE,
                             !.result = Some([dl.result[1] EXCEPT !.state = DOWNLOADING])]
    /\ UNCHANGED <<mainVars, wk, rl, unitVars>>

\* the generator leaves its loop: the one tile of the run was dispatched in
\* the first pass and has settled, so the loop condition is false and the
\* state is set to completed, whatever pause() or cancel() made of it
HStreamEnd ==
    /\ HandleOn
    /\ dl.pulled
    /\ ~dl.ended
    /\ dl.result[1].kind = "live"
    /\ dl' = [dl EXCEPT !.ended = TRUE,
                        !.result = Some([dl.result[1] EXCEPT !.state = COMPLETED])]
    /\ UNCHANGED <<mainVars, wk, rl, unitVars>>

NextH ==
    \/ HPause
    \/ HResume
    \/ HCancel
    \/ HPull
    \/ HStreamEnd

SpecH == InitH /\ [][NextH]_vars

\* ------------------------------------------------------ RetryController
\* One call of executeWithRetry by itself: fn() resolves or throws at every
\* attempt, and the backoff delays waited are kept in the order they were
\* passed to setTimeout.
MaxRetryRuns == 3
DefaultRetries == 5
DefaultRetryBaseDelay == 1000
\* the base of Math.pow(2, attempt)
BackoffFactor == 2

\* config.retries and config.retryBaseDelay: absent or given
RetriesInputs == {None} \cup {Some(r) : r \in 0..MaxRetryRuns}
RetryBaseDelayInputs == {None, Some(1), Some(300)}

\* new RetryController(config.retries ?? 5, config.retryBaseDelay ?? 1000)
NewRetryController(retries, retryBaseDelay) ==
    [maxRetries |-> IF retries = None THEN DefaultRetries ELSE retries[1],
     baseDelay |-> IF retryBaseDelay = None THEN DefaultRetryBaseDelay ELSE retryBaseDelay[1]]

\* Math.pow(base, exponent) for the exponents of the retry loop
RECURSIVE Pow(_, _)
Pow(base, exponent) == IF exponent <= 0 THEN 1 ELSE base * Pow(base, exponent - 1)

\* a backoff that grows by baseDelay at each retry
getBackoffDelay_Linear(baseDelay, attempt) == baseDelay * (attempt + 1)

\* RetryController.getBackoffDelay: baseDelay * Math.pow(2, attempt)
getBackoffDelay(baseDelay, attempt) == baseDelay * Pow(BackoffFactor, attempt)

InitRC ==
    /\ MainOff
    /\ dl = DlOff
    /\ wk = WkOff
    /\ rl = RlIdle
    /\ cc = UnitOff
    /\ pt = UnitOff
    /\ cm = UnitOff
    /\ nd = UnitOff
    /\ \E retries \in RetriesInputs, retryBaseDelay \in RetryBaseDelayInputs :
          LET c == NewRetryController(retries, retryBaseDelay) IN
          rc = [on |-> TRUE, maxRetries |-> c.maxRetries, baseDelay |-> c.baseDelay,
                attempt |-> 0, phase |-> "calling", delays |-> <<>>,
                lastError |-> None, success |-> None]

\* await fn() resolved: return { success: true, result }
RcReturn ==
    /\ rc.on
    /\ rc.phase = "calling"
    /\ rc' = [rc EXCEPT !.phase = "returned", !.success = Some(TRUE)]
    /\ UNCHANGED <<mainVars, auxVars, rl, cc, pt, cm, nd>>

\* await fn() threw and the loop breaks: return { success: false, error }
RcBreak ==
    /\ rc.on
    /\ rc.phase = "calling"
    /\ \E o \in FetchOutcomes \ {"ok"} :
          LET info == classifyError(ErrorOf(o), None) IN
          /\ ~info.retryable \/ rc.attempt >= rc.maxRetries
          /\ rc' = [rc EXCEPT !.phase = "returned", !.success = Some(FALSE),
                              !.lastError = Some(info)]
    /\ UNCHANGED <<mainVars, auxVars, rl, cc, pt, cm, nd>>

\* await fn() threw and the loop goes on: setTimeout(resolve, delay)
RcBackoff ==
    /\ rc.on
    /\ rc.phase = "calling"
    /\ \E o \in FetchOutcomes \ {"ok"} :
          LET info == classifyError(ErrorOf(o), None) IN
          /\ ~(~info.retryable \/ rc.attempt >= rc.maxRetries)
          /\ rc' = [rc EXCEPT !.phase = "sleeping", !.lastError = Some(info),
                              !.delays = Append(@, getBackoffDelay(rc.baseDelay, rc.attempt))]
    /\ UNCHANGED <<mainVars, auxVars, rl, cc, pt, cm, nd>>

\* the timer fired: attempt++ and the next fn()
RcRetry ==
    /\ rc.on
    /\ rc.phase = "sleeping"
    /\ rc' = [rc EXCEPT !.phase = "calling", !.attempt = @ + 1]
    /\ UNCHANGED <<mainVars, auxVars, rl, cc, pt, cm, nd>>

NextRC ==
    \/ RcReturn
    \/ RcBreak
    \/ RcBackoff
    \/ RcRetry

SpecRC == InitRC /\ [][NextRC]_vars

\* ---------------------------------------------------- capabilitiesCache
\* The process-wide capabilitiesCache with up to MaxCrsCalls calls of
\* getSupportedCRS, which may overlap: a call checks the cache when it is
\* made and stores its result when its requests have settled.
MaxCrsCalls == 3
CrsCalls == 1..MaxCrsCalls

\* capabilitiesUrl as its pieces, and the serviceType argument
CapabilitiesUrls == {<<"https", ":", "wms">>, <<"https", ":", "maps">>}
ServiceTypeHints == {None, Some("wms"), Some("wmts")}
CrsResponses == {"network", "other"}

\* a cache key made of the url alone
CacheKey_UrlOnly(serviceType, capabilitiesUrl) == <<"auto", ":">> \o capabilitiesUrl

\* `${serviceType ?? 'auto'}:${capabilitiesUrl}`
CacheKey(serviceType, capabilitiesUrl) ==
    <<IF serviceType = None THEN "auto" ELSE serviceType[1], ":">> \o capabilitiesUrl

\* detectServiceType: the url contains 'wms', or 'wmts', or neither
detectServiceType(url) ==
    IF Includes(url, "wms") THEN "wms"
    ELSE IF Includes(url, "wmts") THEN "wmts"
    ELSE "unknown"

\* Map.has, Map.get and Map.set on capabilitiesCache (a set of entries)
CacheHas(cache, key) == \E e \in cache : e.key = key
CacheGet(cache, key) == (CHOOSE e \in cache : e.key = key).value
CacheSet(cache, key, value) ==
    {e \in cache : e.key # key} \cup {[key |-> key, value |-> value]}

IdleCrsCall ==
    [phase |-> "idle", serviceType |-> None, url |-> <<>>, requests |-> 0,
     result |-> None, after |-> {}]

InitCC ==
    /\ MainOff
    /\ dl = DlOff
    /\ wk = WkOff
    /\ rl = RlIdle
    /\ rc = UnitOff
    /\ pt = UnitOff
    /\ cm = UnitOff
    /\ nd = UnitOff
    /\ cc = [on |-> TRUE, capabilitiesCache |-> {}, calls |-> [c \in CrsCalls |-> IdleCrsCall]]

\* the calls that have returned
CrsReturned == {c \in CrsCalls : cc.calls[c].phase = "returned"}

\* getSupportedCRS up to its first await: a hit returns the entry, a miss
\* goes on to the requests
CcCall(c) ==
    /\ cc.on
    /\ cc.calls[c].phase = "idle"
    /\ \A b \in CrsCalls : b < c => cc.calls[b].phase # "idle"
    /\ \E serviceType \in ServiceTypeHints, url \in CapabilitiesUrls :
          LET cacheKey == CacheKey(serviceType, url)
              call == [IdleCrsCall EXCEPT !.serviceType = serviceType, !.url = url,
                                          !.after = CrsReturned]
          IN cc' = [cc EXCEPT !.calls[c] =
                       IF CacheHas(cc.capabilitiesCache, cacheKey)
                       THEN [call EXCEPT !.phase = "returned",
                                         !.result = Some(CacheGet(cc.capabilitiesCache, cacheKey))]
                       ELSE [call EXCEPT !.phase = "requesting"]]
    /\ UNCHANGED <<mainVars, auxVars, rl, rc, pt, cm, nd>>

\* the requests of a call have settled: the parsed result or the fallback
\* is stored under the key of the call and returned
CcSettle(c) ==
    /\ cc.on
    /\ cc.calls[c].phase = "requesting"
    /\ \E wms \in CrsResponses, wmts \in CrsResponses :
          LET call == cc.calls[c]
              detectedType == IF call.serviceType # None THEN call.serviceType[1]
                              ELSE detectServiceType(call.url)
              fresh == getSupportedCRS(detectedType, wms, wmts)
          IN cc' = [cc EXCEPT !.capabilitiesCache =
                                   CacheSet(@, CacheKey(call.serviceType, call.url), fresh.result),
                              !.calls[c] = [call EXCEPT !.phase = "returned",
                                                        !.requests = fresh.requests,
                                                        !.result = Some(fresh.result)]]
    /\ UNCHANGED <<mainVars, auxVars, rl, rc, pt, cm, nd>>

NextCC ==
    \/ \E c \in CrsCalls : CcCall(c)
    \/ \E c \in CrsCalls : CcSettle(c)

SpecCC == InitCC /\ [][NextCC]_vars

\* ------------------------------------------- ProgressTracker: the metrics
\* A ProgressTracker with the clock that updateMetrics reads: tiles succeed
\* or fail at any time. Times are in milliseconds; currentSpeed and eta are
\* kept as fractions [num, den], since the code computes them in floating
\* point.
MaxPtTiles == 3
MaxPtTicks == 6

PtTickMs == 250
SpeedWindowMs == 500
MsPerSecond == 1000

\* bytes estimated for a run of n tiles
PtEstimatedBytes(n) == 2 * n

Frac(n, d) == [num |-> n, den |-> d]
FracEq(a, b) == a.num * b.den = b.num * a.den
FracPositive(a) == (a.num > 0 /\ a.den > 0) \/ (a.num < 0 /\ a.den < 0)

\* ProgressTracker.updateMetrics (percentComplete is not kept)
updateMetrics(t) ==
    LET elapsedMs == t.now - t.lastUpdateTime
        windowOver == elapsedMs > SpeedWindowMs
        speed == IF windowOver
                 THEN Frac(t.downloadedSinceLastUpdate * MsPerSecond, elapsedMs)
                 ELSE t.progress.currentSpeed
        remaining == t.progress.estimatedBytes - t.progress.downloadedBytes
    IN [t EXCEPT !.progress.currentSpeed = speed,
                 !.downloadedSinceLastUpdate = IF windowOver THEN 0 ELSE @,
                 !.lastUpdateTime = IF windowOver THEN t.now ELSE @,
                 !.progress.eta = IF FracPositive(speed)
                                  THEN Frac(remaining * speed.den, speed.num)
                                  ELSE @]

\* new ProgressTracker(totalTiles, estimatedBytes)
InitPT ==
    /\ MainOff
    /\ dl = DlOff
    /\ wk = WkOff
    /\ rl = RlIdle
    /\ rc = UnitOff
    /\ cc = UnitOff
    /\ cm = UnitOff
    /\ nd = UnitOff
    /\ \E n \in 1..MaxPtTiles :
          pt = [on |-> TRUE, now |-> 0, lastUpdateTime |-> 0, downloadedSinceLastUpdate |-> 0,
                progress |-> [state |-> DOWNLOADING, downloaded |-> 0, failed |-> 0,
                              pending |-> n, retrying |-> 0, totalTiles |-> n,
                              downloadedBytes |-> 0, estimatedBytes |-> PtEstimatedBytes(n),
                              currentSpeed |-> Frac(0, 1), eta |-> Frac(0, 1)]]

\* ProgressTracker.recordSuccess(sizeBytes)
PtRecordSuccess ==
    /\ pt.on
    /\ pt.progress.pending > 0
    /\ \E sizeBytes \in {TileSize(t) : t \in 1..MaxPtTiles} :
          pt' = updateMetrics([pt EXCEPT
                   !.progress = recordSuccess(@, sizeBytes),
                   !.downloadedSinceLastUpdate = @ + sizeBytes])
    /\ UNCHANGED <<mainVars, auxVars, rl, rc, cc, cm, nd>>

\* ProgressTracker.recordFailure()
PtRecordFailure ==
    /\ pt.on
    /\ pt.progress.pending > 0
    /\ pt' = updateMetrics([pt EXCEPT !.progress = recordFailure(@)])
    /\ UNCHANGED <<mainVars, auxVars, rl, rc, cc, cm, nd>>

\* time passes
PtTick ==
    /\ pt.on
    /\ pt.now < MaxPtTicks * PtTickMs
    /\ pt' = [pt EXCEPT !.now = @ + PtTickMs]
    /\ UNCHANGED <<mainVars, auxVars, rl, rc, cc, cm, nd>>

NextPT ==
    \/ PtRecordSuccess
    \/ PtRecordFailure
    \/ PtTick

SpecPT == InitPT /\ [][NextPT]_vars

\* ------------------------------------- useTileDownloader, main-thread mode
\* The composable with mode 'main': start() runs startMainThread, and the
\* component calls pause(), resume() and cancel() at any time, up to
\* MaxCmCalls calls. The download behind the handle is kept as in the
\* worker: the state of its controller, the tiles in the queue, the fetch in
\* flight, the counts of the failure monitor and whether the generator waits
\* in its pause loop.  options.onTileDownloaded is given and takes its time.
MaxCmCalls == 3
MaxCmTiles == 2

ESTIMATING == "estimating"

\* how `await downloadTiles(config)` settles: it rejects, or it resolves with
\* the handle of an empty download, or with a handle of n tiles
CmOutcomes ==
    {<<"throws", 0>>, <<"static", 0>>}
        \cup {<<"live", n>> : n \in (1..MaxCmTiles) \cup {LongRunTiles}}

\* useTileDownloader({ mode: 'main', onComplete })
InitCM ==
    /\ MainOff
    /\ dl = DlOff
    /\ wk = WkOff
    /\ rl = RlIdle
    /\ rc = UnitOff
    /\ cc = UnitOff
    /\ pt = UnitOff
    /\ nd = UnitOff
    /\ cm = [on |-> TRUE, phase |-> "idle", state |-> IDLE, downloadResult |-> "none",
             hstate |-> IDLE, remaining |-> 0, inflight |-> FALSE, total |-> 0,
             failed |-> 0, stream |-> "none", parked |-> FALSE, delivering |-> FALSE,
             unmounted |-> FALSE, progressInterval |-> FALSE,
             progressSet |-> FALSE, calls |-> 0, onComplete |-> 0, cancelled |-> FALSE,
             completedAfterCancel |-> FALSE, onCompleteAfterCancel |-> FALSE]

\* the component may call the composable when no callback of it is running
CmCall == cm.on /\ cm.calls < MaxCmCalls

\* start(config): startMainThread runs up to `await import(...)`
CmStart ==
    /\ CmCall
    /\ cm.phase = "idle"
    /\ cm' = [cm EXCEPT !.phase = "import", !.calls = @ + 1]
    /\ UNCHANGED <<mainVars, auxVars, rl, rc, cc, pt, nd>>

\* the import resolved: state.value = 'estimating', then
\* `await downloadTiles(config)`
CmImported ==
    /\ cm.on
    /\ cm.phase = "import"
    /\ cm' = [cm EXCEPT !.phase = "estimating", !.state = ESTIMATING]
    /\ UNCHANGED <<mainVars, auxVars, rl, rc, cc, pt, nd>>

\* state.value = 'completed' and options.onComplete(finalStats)
CmComplete(c) ==
    [c EXCEPT !.phase = "completed", !.state = COMPLETED, !.progressInterval = FALSE,
              !.progressSet = TRUE, !.onComplete = @ + 1,
              !.completedAfterCancel = @ \/ c.cancelled,
              !.onCompleteAfterCancel = @ \/ c.cancelled]

\* the catch of startMainThread: clearInterval, state.value = 'failed'
CmFail(c) == [c EXCEPT !.phase = "failed", !.state = FAILED, !.progressInterval = FALSE]

\* `await downloadTiles(config)` settles. With the handle of an empty
\* download the empty stream and the resolved stats are passed in one chain
\* of microtasks; with tiles the first next() of the for await starts the
\* generator, which dispatches the first tile
CmDownloadTilesSettles ==
    /\ cm.on
    /\ cm.phase = "estimating"
    /\ \E o \in CmOutcomes :
          cm' = IF o[1] = "throws" THEN CmFail(cm)
                ELSE IF o[1] = "static"
                THEN CmComplete([cm EXCEPT !.downloadResult = "static", !.hstate = COMPLETED])
                ELSE [cm EXCEPT !.phase = "iterating", !.state = DOWNLOADING,
                                !.downloadResult = "live", !.hstate = DOWNLOADING,
                                !.remaining = o[2] - 1, !.inflight = TRUE,
                                !.stream = "open", !.progressInterval = TRUE]
    /\ UNCHANGED <<mainVars, auxVars, rl, rc, cc, pt, nd>>

\* the stream ends: startMainThread goes on to
\* `await downloadResult.stats`
CmStreamEnd(c) == [c EXCEPT !.phase = "awaitStats"]

\* the generator throws (failure threshold): the catch of startMainThread
CmStreamThrows(c) == CmFail(c)

\* the generator runs on from the top of its loop, and startMainThread with
\* it when the stream ends or throws
CmNext(c) ==
    LET h == IteratorLoop(c)
    IN IF h.stream = "ended" THEN CmStreamEnd(h)
       ELSE IF h.stream = "threw" THEN CmStreamThrows(h)
       ELSE h

\* the fetch in flight succeeds: the tile is yielded whatever the state of
\* the controller is, and the for await calls options.onTileDownloaded
CmTile ==
    /\ cm.on
    /\ cm.phase = "iterating"
    /\ cm.inflight
    /\ cm' = [HandleSettled(cm, TRUE) EXCEPT !.delivering = TRUE]
    /\ UNCHANGED <<mainVars, auxVars, rl, rc, cc, pt, nd>>

\* options.onTileDownloaded has resolved: the for await calls next()
CmTileStored ==
    /\ cm.on
    /\ cm.phase = "iterating"
    /\ cm.delivering
    /\ cm' = CmNext([cm EXCEPT !.delivering = FALSE])
    /\ UNCHANGED <<mainVars, auxVars, rl, rc, cc, pt, nd>>

\* the fetch in flight fails for good: no tile is yielded, the generator
\* goes back to the top of its loop
CmTileFails ==
    /\ cm.on
    /\ cm.phase = "iterating"
    /\ cm.inflight
    /\ cm' = CmNext(HandleSettled(cm, FALSE))
    /\ UNCHANGED <<mainVars, auxVars, rl, rc, cc, pt, nd>>

\* downloadResult.stats resolved: stats.value, clearInterval,
\* state.value = 'completed', onComplete
CmStats ==
    /\ cm.on
    /\ cm.phase = "awaitStats"
    /\ IsTerminal(cm.hstate)
    /\ cm' = CmComplete(cm)
    /\ UNCHANGED <<mainVars, auxVars, rl, rc, cc, pt, nd>>

\* the progressInterval callback: progress.value = downloadResult.progress
CmInterval ==
    /\ cm.on
    /\ cm.progressInterval
    /\ ~cm.progressSet
    /\ cm' = [cm EXCEPT !.progressSet = TRUE]
    /\ UNCHANGED <<mainVars, auxVars, rl, rc, cc, pt, nd>>

\* pause(): downloadResult.pause() when there is a handle (it throws outside
\* the state downloading, and then state.value is not written; else it only
\* sets the state of the controller), then state.value = 'paused'
CmPause ==
    /\ CmCall
    /\ cm' = IF cm.downloadResult = "live" /\ pause(cm.hstate).threw
             THEN [cm EXCEPT !.calls = @ + 1]
             ELSE IF cm.downloadResult = "live"
             THEN [cm EXCEPT !.calls = @ + 1, !.state = PAUSED,
                             !.hstate = pause(cm.hstate).state]
             ELSE [cm EXCEPT !.calls = @ + 1, !.state = PAUSED]
    /\ UNCHANGED <<mainVars, auxVars, rl, rc, cc, pt, nd>>

\* resume(): downloadResult.resume() when there is a handle, then
\* state.value = 'downloading'; a generator that waits for 'resume' then
\* runs on from the top of its loop
CmResume ==
    /\ CmCall
    /\ cm' = IF cm.downloadResult = "live" /\ resume(cm.hstate).threw
             THEN [cm EXCEPT !.calls = @ + 1]
             ELSE IF cm.downloadResult = "live"
             THEN LET c == [cm EXCEPT !.calls = @ + 1, !.state = DOWNLOADING,
                                      !.hstate = resume(cm.hstate).state,
                                      !.parked = FALSE]
                  IN IF cm.parked THEN CmNext(c) ELSE c
             ELSE [cm EXCEPT !.calls = @ + 1, !.state = DOWNLOADING]
    /\ UNCHANGED <<mainVars, auxVars, rl, rc, cc, pt, nd>>

\* cancel(): downloadResult.cancel() and clearInterval when there is a
\* handle, then state.value = 'cancelled'
CmCancel ==
    /\ CmCall
    /\ cm' = [cm EXCEPT !.calls = @ + 1, !.state = CANCELLED, !.cancelled = TRUE,
                        !.hstate = IF cm.downloadResult = "live"
                                   THEN cancel(cm.hstate, FALSE).state ELSE @,
                        !.progressInterval = IF cm.downloadResult = "none" THEN @ ELSE FALSE]
    /\ UNCHANGED <<mainVars, auxVars, rl, rc, cc, pt, nd>>

\* the callback registered with onUnmounted, without a worker:
\* clearInterval(progressInterval); startMainThread is not stopped
CmUnmounted ==
    /\ cm.on
    /\ ~cm.unmounted
    /\ cm' = [cm EXCEPT !.unmounted = TRUE, !.progressInterval = FALSE]
    /\ UNCHANGED <<mainVars, auxVars, rl, rc, cc, pt, nd>>

NextCM ==
    \/ CmStart
    \/ CmImported
    \/ CmDownloadTilesSettles
    \/ CmTile
    \/ CmTileStored
    \/ CmTileFails
    \/ CmStats
    \/ CmInterval
    \/ CmPause
    \/ CmResume
    \/ CmCancel
    \/ CmUnmounted

SpecCM == InitCM /\ [][NextCM]_vars

\* ------------------------------------- newTileDownloader: downloadTiles
\* The bounded-parallel generator of newTileDownloader with its consumer:
\* the consumer pulls at any time, and every fetch succeeds at any time.
MaxParallel == 3
MaxNdRanges == 3

Subdomains == <<"a", "b", "c">>

\* tileRanges of a TileRangeCollection: zoom levels 0..n-1, level z with
\* the columns 0..z and one row
NdTileRanges(n) ==
    [i \in 1..n |-> [zoom |-> i - 1, minX |-> 0, maxX |-> i - 1, minY |-> 0, maxY |-> 0,
                     count |-> i]]

\* createTileRangeCollection: totalCount is the sum of the counts
RECURSIVE TotalCount(_)
TotalCount(tileRanges) ==
    IF tileRanges = <<>> THEN 0
    ELSE tileRanges[1].count + TotalCount(Tail(tileRanges))

\* the urls of one range in the order of the loops over x and y, with the
\* subdomain index counted on from k
RECURSIVE RangeURLs(_, _, _, _)
RangeURLs(range, x, y, k) ==
    IF x > range.maxX THEN <<>>
    ELSE IF y > range.maxY THEN RangeURLs(range, x + 1, range.minY, k)
    ELSE LET currentSubdomainIndex == (k + 1) % Len(Subdomains)
         IN <<[s |-> Subdomains[currentSubdomainIndex + 1], z |-> range.zoom,
               x |-> x, y |-> y]>>
            \o RangeURLs(range, x, y + 1, currentSubdomainIndex)

\* generateTileURLs: every range in turn
RECURSIVE generateTileURLs(_, _)
generateTileURLs(tileRanges, k) ==
    IF tileRanges = <<>> THEN <<>>
    ELSE LET r == tileRanges[1]
             here == RangeURLs(r, r.minX, r.minY, k)
         IN here \o generateTileURLs(Tail(tileRanges), (k + Len(here)) % Len(Subdomains))

\* downloadTiles(tileRangeCollection, { maxParallelDownloads }) before the
\* first next()
InitND ==
    /\ MainOff
    /\ dl = DlOff
    /\ wk = WkOff
    /\ rl = RlIdle
    /\ rc = UnitOff
    /\ cc = UnitOff
    /\ pt = UnitOff
    /\ cm = UnitOff
    /\ \E n \in 1..MaxNdRanges, maxParallelDownloads \in 1..MaxParallel :
          nd = [on |-> TRUE, maxParallelDownloads |-> maxParallelDownloads,
                totalCount |-> TotalCount(NdTileRanges(n)),
                urls |-> generateTileURLs(NdTileRanges(n), 0),
                next |-> 1, fetching |-> {}, pendingDownloads |-> {}, race |-> {},
                pc |-> "init", yielded |-> <<>>]

\* the generator runs from a position of its code to its next await or to
\* its end: the for loop starts a download and adds it to pendingDownloads,
\* the while loops await Promise.race(pendingDownloads)
RECURSIVE Advance(_, _)
Advance(g, pos) ==
    CASE pos = "for" ->
            IF g.next <= Len(g.urls)
            THEN Advance([g EXCEPT !.next = @ + 1,
                                   !.fetching = @ \cup {g.next},
                                   !.pendingDownloads = @ \cup {g.next}], "while")
            ELSE Advance(g, "drain")
      [] pos = "while" ->
            IF Cardinality(g.pendingDownloads) >= g.maxParallelDownloads
            THEN [g EXCEPT !.pc = "awaitWhile", !.race = g.pendingDownloads]
            ELSE Advance(g, "for")
      [] pos = "drain" ->
            IF Cardinality(g.pendingDownloads) > 0
            THEN [g EXCEPT !.pc = "awaitDrain", !.race = g.pendingDownloads]
            ELSE [g EXCEPT !.pc = "done"]

\* the consumer calls next(): the generator starts, or goes on after the
\* yield in the loop it was in
NdPull ==
    /\ nd.on
    /\ nd.pc \in {"init", "yieldWhile", "yieldDrain"}
    /\ nd' = Advance(nd, CASE nd.pc = "init" -> "for"
                           [] nd.pc = "yieldWhile" -> "while"
                           [] nd.pc = "yieldDrain" -> "drain")
    /\ UNCHANGED <<mainVars, auxVars, rl, rc, cc, pt, cm>>

\* downloadTile(url) fulfils: its reaction deletes it from pendingDownloads;
\* a race the generator awaits resolves with its blob, which the generator
\* yields
NdFetchDone(u) ==
    /\ nd.on
    /\ u \in nd.fetching
    /\ nd' = IF nd.pc \in {"awaitWhile", "awaitDrain"} /\ u \in nd.race
             THEN [nd EXCEPT !.fetching = @ \ {u}, !.pendingDownloads = @ \ {u},
                             !.race = {}, !.yielded = Append(@, u),
                             !.pc = IF nd.pc = "awaitWhile" THEN "yieldWhile" ELSE "yieldDrain"]
             ELSE [nd EXCEPT !.fetching = @ \ {u}, !.pendingDownloads = @ \ {u}]
    /\ UNCHANGED <<mainVars, auxVars, rl, rc, cc, pt, cm>>

NextND ==
    \/ NdPull
    \/ \E u \in 1..TotalCount(NdTileRanges(MaxNdRanges)) : NdFetchDone(u)

SpecND == InitND /\ [][NextND]_vars

\* ------------------------------------------------------- specifications
Generator ==
    \/ GenComplete
    \/ GenPauseWait
    \/ GenResumed
    \/ GenCancelled
    \/ GenAbort
    \/ GenSchedule
    \/ GenDispatch
    \/ GenYield
    \/ GenRecordFailure

TaskOutcomes == FetchOutcomes \cup {"abort"}

TaskStep ==
    \/ \E t \in DOMAIN tasks : TaskAcquired(t)
    \/ \E t \in DOMAIN tasks : TaskFetchOk(t)
    \/ \E t \in DOMAIN tasks, o \in TaskOutcomes : TaskFetchFail(t, o)
    \/ \E t \in DOMAIN tasks, o \in TaskOutcomes : TaskFetchBackoff(t, o)
    \/ \E t \in DOMAIN tasks : TaskRetry(t)

Next ==
    \/ ConsumerPull
    \/ GenComplete
    \/ GenPauseWait
    \/ GenResumed
    \/ GenCancelled
    \/ GenAbort
    \/ GenSchedule
    \/ GenDispatch
    \/ GenYield
    \/ GenRecordFailure
    \/ \E t \in DOMAIN tasks : TaskAcquired(t)
    \/ \E t \in DOMAIN tasks : TaskFetchOk(t)
    \/ \E t \in DOMAIN tasks, o \in TaskOutcomes : TaskFetchFail(t, o)
    \/ \E t \in DOMAIN tasks, o \in TaskOutcomes : TaskFetchBackoff(t, o)
    \/ \E t \in DOMAIN tasks : TaskRetry(t)
    \/ Pause
    \/ Resume
    \/ Cancel
    \/ StatsPoll

Spec == Init /\ [][Next]_vars

\* The event loop runs every continuation that is ready, timers and fetches
\* end, the stats interval keeps firing and the consumer keeps pulling; the
\* control functions are called only if the user wishes.
LiveSpec ==
    /\ Init
    /\ [][Next]_vars
    /\ WF_vars(Generator)
    /\ WF_vars(TaskStep)
    /\ WF_vars(ConsumerPull)
    /\ WF_vars(StatsPoll)

\* As LiveSpec, but the consumer may stop pulling.
PollSpec ==
    /\ Init
    /\ [][Next]_vars
    /\ WF_vars(Generator)
    /\ WF_vars(TaskStep)
    /\ WF_vars(StatsPoll)

\* ------------------------------------------------------------ properties
\* a request was sent in this step: downloadTile was called and handed
\* fetch a signal that is not aborted (fetch with an aborted signal rejects
\* without a request)
CallsOf(ts, t) == IF t \in DOMAIN ts THEN ts[t].calls ELSE 0
FetchStartedInStep ==
    \E t \in DOMAIN tasks' : CallsOf(tasks', t) > CallsOf(tasks, t) /\ ~tasks'[t].shared

StreamEnded == pc \in {"done", "threw"}

\* C1: in every progress snapshot downloaded + failed + pending + retrying
\* equals totalTiles, in any state and after any successes, failures, pause,
\* resume and cancel.
C1_CountersSumToTotal ==
    progress.downloaded + progress.failed + progress.pending + progress.retrying
        = progress.totalTiles

C1_Witness ==
    /\ progress.downloaded >= 1
    /\ progress.failed >= 1
    /\ progress.pending >= 1
    /\ state = PAUSED

\* C2 (as claimed): whenever the stats promise has resolved, in a run that
\* ended completed, cancelled or failed, successful + failed = totalTiles.
C2_Original ==
    stats # None => stats[1].successful + stats[1].failed = stats[1].totalTiles

\* C2 (amended): when the stats promise resolved on state completed,
\* successful + failed = totalTiles.
C2_CompletedStatsCountEveryTile ==
    (stats # None /\ stats[1].state = COMPLETED)
        => stats[1].successful + stats[1].failed = stats[1].totalTiles

C2_Witness ==
    /\ stats # None
    /\ stats[1].state = COMPLETED
    /\ stats[1].successful >= 1
    /\ stats[1].failed >= 1

\* C3: once cancel() has been called no further tile is yielded and no
\* further fetch request is started.
C3_Claim ==
    [][cancelCalled => (yielded' = yielded /\ ~FetchStartedInStep)]_vars

\* C4: no tile is yielded on the stream more than once in one run.
C4_NoTileYieldedTwice ==
    \A i, j \in DOMAIN yielded : i # j => yielded[i] # yielded[j]

C4_Witness ==
    /\ Len(yielded) >= 3
    /\ progress.failed >= 1

\* C5: the download tasks in flight never outnumber the concurrency of the
\* queue (with a concurrency below 1 no task is ever in flight).
C5_InFlightWithinConcurrency ==
    activeDownloads # {} => Cardinality(activeDownloads) <= concurrency

C5_Witness ==
    /\ concurrency >= 1
    /\ Cardinality(activeDownloads) = concurrency
    /\ Len(queue) > 0

\* C6: the concurrency the scheduler uses is an integer in [1, 6] whatever
\* the caller configures.
C6_Claim == concurrency \in 1..MaxConcurrency

\* C7: two consecutive returns of acquire() on one limiter are at least
\* 1000/R ms apart, also when several callers wait in acquire() at once.
C7_Claim ==
    (rl.on /\ rl.gap # None) => rl.gap[1] >= rl.minInterval

\* C8: a fetch in flight when cancel() is called fails with kind cancelled
\* and is not attempted again.
C8_Claim ==
    \A t \in DOMAIN tasks :
        tasks[t].atCancel =>
            \/ tasks[t].phase = "fetching" /\ ~tasks[t].againAfterCancel
            \/ tasks[t].phase = "settled" /\ tasks[t].result = "null"
                  /\ tasks[t].error = "cancelled" /\ ~tasks[t].againAfterCancel

\* C9: after cancel() was called in a non-terminal state the tiles stream
\* eventually ends without a further control call.  Stated for the runs
\* with a concurrency of at least 1: with a lower one the loop of the
\* generator never reaches an await (C6).
C9_Claim == (cancelCalled /\ concurrency >= 1) ~> StreamEnded

\* C10: an attempt that ends in HTTP 400, 401, 403, 404 or 410 or in a body
\* that is not an image ends the retry loop: the tile has failed after
\* exactly one attempt.
NonRetryableOutcomes == {"http404", "notImage"}

C10_Claim ==
    \A t \in DOMAIN tasks :
        tasks[t].last \in NonRetryableOutcomes =>
            /\ tasks[t].phase = "settled"
            /\ tasks[t].result = "null"
            /\ tasks[t].calls = 1

\* C11: downloadTile is called at most 1 + retries times for one tile, and
\* exactly 1 + retries times when the tile failed and its attempts ended in
\* retryable errors; with retries = 0 a failing attempt is the only one.
RetryableOutcomes == {"network", "timeout", "http503"}

C11_AttemptsBounded ==
    \A t \in DOMAIN tasks :
        /\ tasks[t].calls <= 1 + maxRetries
        /\ (tasks[t].phase = "settled" /\ tasks[t].result = "null"
                /\ tasks[t].last \in RetryableOutcomes)
              => tasks[t].calls = 1 + maxRetries
        /\ maxRetries = 0 => tasks[t].phase # "backoff"

C11_Witness ==
    \E t \in DOMAIN tasks :
        /\ maxRetries >= 1
        /\ tasks[t].phase = "settled"
        /\ tasks[t].result = "null"
        /\ tasks[t].last = "http503"
        /\ tasks[t].calls = 1 + maxRetries

\* C12: a tile that succeeds after k retried failures has had k + 1 calls
\* of downloadTile, is yielded, is counted as downloaded and not as failed,
\* and adds nothing to the errors of the stats.
C12_RetriedSuccessIsDownloaded ==
    [][(pc = "resolved" /\ pc' # "resolved" /\ tasks[winner].result = "ok")
          => /\ tasks[winner].calls = tasks[winner].attempt + 1
             /\ yielded' = Append(yielded, tasks[winner].tile)
             /\ progress'.downloaded = progress.downloaded + 1
             /\ progress'.failed = progress.failed
             /\ errors' = errors
             /\ failedTiles' = failedTiles]_vars

C12_Witness ==
    /\ pc = "resolved"
    /\ tasks[winner].result = "ok"
    /\ tasks[winner].attempt >= 1
    /\ tasks[winner].calls = tasks[winner].attempt + 1

\* C13: when the failure monitor has tripped, the state of the controller
\* and the state in the progress snapshot are failed and nothing is in
\* flight.
C13_Claim ==
    pc = "threw" => (state = FAILED /\ progress.state = FAILED /\ activeDownloads = {})

\* C14: when the run ended because the failure monitor tripped, the stats
\* promise is rejected, not resolved.
C14_Claim ==
    (pc = "threw" /\ stats # None) => stats[1].settled = "rejected"

\* C15: the run ends in failed only when at least MinAttempts outcomes were
\* recorded and more than a quarter of them failed; a run that ends otherwise, without
\* cancel(), has gone through every tile.
C15_FailedOnlyOnThreshold ==
    /\ (pc = "threw" \/ progress.state = FAILED)
          => (fmTotal >= MinAttempts /\ fmFailed * ThresholdDen > ThresholdNum * fmTotal)
    /\ (pc = "done" /\ ~cancelCalled) => progress.pending = 0

C15_Witness ==
    /\ pc = "threw"
    /\ progress.state = FAILED
    /\ progress.downloaded >= 1

\* C16: in the settled stats, errors and failedTiles have one entry for each
\* tile counted as failed.
C16_Claim ==
    stats # None =>
        /\ Len(stats[1].errors) = stats[1].failed
        /\ Len(stats[1].failedTiles) = stats[1].failed

\* C17: every download that settled is counted exactly once: the tiles
\* yielded are as many as progress.downloaded, and downloaded + failed is the
\* number of downloads the generator has observed; a settled download is
\* observed in the same turn.
C17_EachTileCountedOnce ==
    /\ Len(yielded) = progress.downloaded
    /\ progress.downloaded + progress.failed = Cardinality(completedDownloads)
    /\ completedDownloads \cap activeDownloads = {}
    /\ \A t \in DOMAIN tasks :
          tasks[t].phase = "settled" => (pc = "resolved" /\ winner = t)

C17_Witness ==
    /\ progress.downloaded >= 2
    /\ progress.failed >= 2
    /\ pc = "race"

\* C18: cancel() in a non-terminal state gives the state cancelled and an
\* aborted signal, and a second cancel() changes neither and emits no event.
C18_CancelIdempotent ==
    LET first == cancel(state, aborted)
        second == cancel(first.state, first.aborted)
    IN /\ state \in {IDLE, DOWNLOADING, PAUSED}
             => (first.state = CANCELLED /\ first.aborted /\ first.emitted)
       /\ second.state = first.state
       /\ second.aborted = first.aborted
       /\ ~second.emitted

C18_Witness ==
    /\ cancelCalled
    /\ state = CANCELLED
    /\ pc = "race"

\* C19: once the state is completed or cancelled the stats promise
\* eventually resolves, whether or not the consumer keeps pulling.  Stated
\* for the runs with a concurrency of at least 1.
C19_Claim ==
    (concurrency >= 1 /\ (state = COMPLETED \/ state = CANCELLED)) ~> (stats # None)

\* C20: while the run is paused no new download is dispatched, at most
\* `concurrency` tiles are yielded after the pause(), and once nothing is in
\* flight no tile is yielded and no fetch is started.
C20_Claim ==
    [][state = PAUSED
          => /\ nextTask' = nextTask
             /\ sincePause' <= concurrency
             /\ DOMAIN tasks = {} => (yielded' = yielded /\ tasks' = tasks)]_vars

\* C21: a run in which pause() and resume() were called ends like a run
\* without them: when it completes (no cancel()), no tile was yielded twice,
\* every yielded tile is a tile of the run, every tile was either yielded or
\* counted as failed, and with no failed tile the yielded tiles are exactly
\* the tiles of the run.
RangeOf(seq) == {seq[i] : i \in DOMAIN seq}

C21_PauseResumeKeepsTiles ==
    (pc = "done" /\ state = COMPLETED /\ ~cancelCalled) =>
        /\ \A i, j \in DOMAIN yielded : i # j => yielded[i] # yielded[j]
        /\ RangeOf(yielded) \subseteq RangeOf(tiles)
        /\ Len(yielded) + progress.failed = Len(tiles)
        /\ progress.failed = 0 => RangeOf(yielded) = RangeOf(tiles)

C21_Witness ==
    /\ pc = "done"
    /\ state = COMPLETED
    /\ resumeCalled
    /\ ~cancelCalled
    /\ Len(tiles) >= 2
    /\ RangeOf(yielded) = RangeOf(tiles)

\* C22 as stated: a second call of downloadTiles with the same configuration
\* and the keys of the tiles the first run yielded returns totalTiles = 0
\* and an empty stream, and fetches no tile.
C22_Original ==
    (dl.on /\ dl.run = 2 /\ dl.pc = "returned")
        => /\ dl.result[1].totalTiles = 0
           /\ dl.result[1].tiles = <<>>
           /\ dl.requests.sample = 0

\* C22: when the first run had no existing tiles and no failure, a second
\* call of downloadTiles with the same configuration and the keys of the
\* tiles the first run yielded returns totalTiles = 0 and an empty stream,
\* no tile is handed to the scheduler, and the only tiles it fetches are the
\* samples of the size estimation, which runs before the deduplication.
C22_SecondRunIsEmpty ==
    (dl.on /\ dl.run = 2 /\ dl.pc = "returned" /\ dl.firstExisting \in {None, Some({})})
        => /\ dl.result[1].totalTiles = 0
           /\ dl.result[1].tiles = <<>>
           /\ dl.result[1].kind = "static"
           /\ dl.requests.sample = SampleFetches(dl.ranges)

C22_Witness ==
    /\ dl.on
    /\ dl.run = 2
    /\ dl.pc = "returned"
    /\ dl.firstExisting = None
    /\ dl.cfg.tileScheme = "tms"
    /\ Len(AllTiles(dl.ranges, dl.cfg.tileScheme)) >= 2
    /\ dl.result[1].totalTiles = 0
    /\ dl.requests.sample >= 2

\* C23: in the returned handle the per-zoom counts of tilesByZoom sum to
\* totalTiles, the number of tiles absent from existingTiles.
RECURSIVE SumOver(_, _)
SumOver(f, S) ==
    IF S = {} THEN 0
    ELSE LET z == CHOOSE z \in S : TRUE IN f[z] + SumOver(f, S \ {z})

C23_Claim ==
    (dl.on /\ dl.pc = "returned")
        => SumOver(dl.result[1].tilesByZoom, DOMAIN dl.result[1].tilesByZoom)
              = dl.result[1].totalTiles

\* C24: with a URL template that misses a placeholder, an unknown CRS or
\* minZoom > maxZoom, downloadTiles issues no request and returns no handle.
ConfigInvalid(cfg) ==
    \/ cfg.url # {}
    \/ (cfg.crs # None /\ cfg.crs[1] \notin KnownProjections)
    \/ cfg.minZoom > cfg.maxZoom

C24_Claim ==
    (dl.on /\ ConfigInvalid(dl.cfg))
        => /\ dl.requests = NoRequests
           /\ dl.pc # "returned"

\* C25: when the capabilities request fails, answers with a non-OK response
\* or with a document that cannot be parsed or names no CRS, getSupportedCRS
\* returns the fallback; and its default is always one of its supportedCRS.
FailureResponses == {"network", "nonOk", "malformed", "noCrs"}

C25_Claim ==
    (dl.on /\ dl.run = 1 /\ dl.crsCaps # None)
        => /\ ({dl.cfg.caps[1].wms, dl.cfg.caps[1].wmts} \subseteq FailureResponses
                  => dl.crsCaps[1] = FallbackCRS)
           /\ Includes(dl.crsCaps[1].supportedCRS, dl.crsCaps[1].default)

\* C26: a CANCEL_DOWNLOAD that arrives after START_DOWNLOAD and before the
\* terminal response of the download is answered by DOWNLOAD_CANCELLED,
\* also while downloadTiles is still validating or estimating.
C26_Claim == wk.on => ~wk.cancelIgnored

\* C27: two PROGRESS_UPDATE responses of one download id are at least one
\* second apart.
C27_Claim == (wk.on /\ wk.gap # None) => wk.gap[1] >= ProgressIntervalMs

\* C28: whenever the scheduler waits for a completion, `concurrency` tasks
\* are in flight or the queue is empty.  Stated for the runs with a
\* concurrency of at least 1.
C28_Claim ==
    (pc = "race" /\ concurrency >= 1)
        => (Cardinality(activeDownloads) = concurrency \/ Len(queue) = 0)

\* C29: shouldAbort() is true exactly when at least MinAttempts outcomes are
\* recorded and more than a quarter of them failed: never below MinAttempts
\* outcomes and not at exactly a quarter.
C29_ShouldAbortIffThreshold ==
    pc = "off" =>
        /\ fmTotal < MinAttempts => ~shouldAbort
        /\ (fmTotal >= MinAttempts /\ fmFailed * ThresholdDen = ThresholdNum * fmTotal)
              => ~shouldAbort
        /\ (fmTotal >= MinAttempts /\ fmFailed * ThresholdDen > ThresholdNum * fmTotal)
              => shouldAbort
        /\ (fmTotal >= MinAttempts /\ fmFailed * ThresholdDen < ThresholdNum * fmTotal)
              => ~shouldAbort

C29_Witness ==
    /\ pc = "off"
    /\ fmTotal >= MinAttempts
    /\ fmFailed > 0
    /\ fmFailed * ThresholdDen = ThresholdNum * fmTotal
    /\ ~shouldAbort

\* C30 as stated: on every handle, pause() outside the state downloading and
\* resume() outside the state paused raise an error and leave the state as
\* it was.
RejectsOutside(call) ==
    /\ call.op = "pause" => (call.threw <=> call.before # DOWNLOADING)
    /\ call.op = "resume" => (call.threw <=> call.before # PAUSED)
    /\ call.threw => call.after = call.before
    /\ (call.op = "pause" /\ ~call.threw) => call.after = PAUSED
    /\ (call.op = "resume" /\ ~call.threw) => call.after = DOWNLOADING

C30_Original ==
    (HandleOn /\ dl.lastCall # None) => RejectsOutside(dl.lastCall[1])

\* C30: on the handle of a run that has tiles to download, pause() outside
\* the state downloading and resume() outside the state paused raise an
\* error and leave the state as it was; in the right state they switch
\* between downloading and paused.
C30_RunHandleRejectsOutside ==
    (HandleOn /\ dl.lastCall # None /\ dl.result[1].kind = "live")
        => RejectsOutside(dl.lastCall[1])

C30_Witness ==
    /\ HandleOn
    /\ dl.result[1].kind = "live"
    /\ dl.lastCall # None
    /\ dl.lastCall[1].op = "pause"
    /\ dl.lastCall[1].before = COMPLETED
    /\ dl.lastCall[1].threw
    /\ dl.result[1].state = COMPLETED

\* ---------------------------------------------------------------- C31
\* C31: the delay waited before the first retry of a call is baseDelay, and
\* the delay before every later retry is twice the delay before the retry
\* that preceded it (so retry k waits baseDelay * 2^k).
C31_BackoffDoubles ==
    rc.on =>
       \A k \in DOMAIN rc.delays :
          rc.delays[k] = IF k = 1 THEN rc.baseDelay ELSE BackoffFactor * rc.delays[k - 1]

\* three retries were waited for, the last one with four times baseDelay
C31_Witness ==
    /\ rc.on
    /\ Len(rc.delays) >= 3
    /\ rc.delays[3] = BackoffFactor * BackoffFactor * rc.baseDelay
    /\ rc.phase = "calling"

\* ---------------------------------------------------------------- C32
\* two calls were made with the same service-type hint and the same url
SameArguments(c, d) ==
    /\ cc.calls[c].serviceType = cc.calls[d].serviceType
    /\ cc.calls[c].url = cc.calls[d].url

\* the call c had returned before any other call with its arguments was made
FirstOfItsArguments(c) ==
    /\ cc.calls[c].phase = "returned"
    /\ \A d \in CrsCalls \ {c} :
          (cc.calls[d].phase # "idle" /\ SameArguments(c, d)) => c \in cc.calls[d].after

\* C32: a getSupportedCRS call made after the first call with the same
\* (service-type hint, url) has returned gives that call's result and issues
\* no request, however the server would answer now; and a call that issued
\* no request was made after a call with the same hint and the same url had
\* returned, so calls that differ in hint or url share no cache entry.
C32_MemoizedByHintAndUrl ==
    cc.on =>
       /\ \A c \in CrsCalls : \A d \in CrsCalls \ {c} :
             (FirstOfItsArguments(c) /\ cc.calls[d].phase = "returned" /\ SameArguments(c, d))
                => /\ cc.calls[d].requests = 0
                   /\ cc.calls[d].result = cc.calls[c].result
       /\ \A d \in CrsReturned :
             cc.calls[d].requests = 0
                => \E c \in cc.calls[d].after : SameArguments(c, d)

\* a first call issued its request, a second call with the
\* same arguments returned its result without a request, and a third call
\* that differs in the hint only issued its own request
C32_Witness ==
    /\ cc.on
    /\ \E c, d, e \in CrsReturned :
          /\ FirstOfItsArguments(c)
          /\ d # c /\ SameArguments(c, d)
          /\ cc.calls[c].requests > 0
          /\ cc.calls[d].requests = 0
          /\ cc.calls[d].result = cc.calls[c].result
          /\ cc.calls[e].url = cc.calls[c].url
          /\ cc.calls[e].serviceType # cc.calls[c].serviceType
          /\ cc.calls[e].after = {c, d}
          /\ cc.calls[e].requests > 0

\* ---------------------------------------------------------------- C33
\* C33: in every progress snapshot eta is (estimatedBytes - downloadedBytes)
\* / currentSpeed when currentSpeed > 0, and 0 when it is not.
C33_Claim ==
    pt.on =>
       LET p == pt.progress IN
       IF FracPositive(p.currentSpeed)
       THEN FracEq(p.eta, Frac((p.estimatedBytes - p.downloadedBytes) * p.currentSpeed.den,
                               p.currentSpeed.num))
       ELSE p.eta.num = 0

\* ---------------------------------------------------------------- C34
\* C34: once the controller state is cancelled, completed or failed, no step
\* changes it.
C34_Claim == [][IsTerminal(state) => state' = state]_vars

\* ---------------------------------------------------------------- C35
\* C35: whenever the caller can observe the handle, the state in the
\* progress snapshot equals the state of the controller.
C35_Claim == (pc # "off" /\ EnvTurn) => progress.state = state

\* ---------------------------------------------------------------- C36
\* C36: a step that sets the state to completed leaves the queue empty, no
\* download in flight, progress.pending = 0 and downloaded + failed =
\* totalTiles.
C36_CompletedMeansAllSettled ==
    [][(state' = COMPLETED /\ pc' # pc) =>
          /\ queue' = <<>>
          /\ activeDownloads' = {}
          /\ \A t \in DOMAIN tasks' : tasks'[t].phase = "settled"
          /\ progress'.pending = 0
          /\ progress'.downloaded + progress'.failed = progress'.totalTiles]_vars

\* a run completed after a download and a failure
C36_Witness ==
    /\ state = COMPLETED
    /\ pc = "done"
    /\ progress.downloaded > 0
    /\ progress.failed > 0
    /\ progress.pending = 0

\* ---------------------------------------------------------------- C37
\* C37: the worker posts at most one terminal response for the download id,
\* exactly one once startDownload has ended, and no TILE_DOWNLOADED or
\* PROGRESS_UPDATE after it.
C37_Claim ==
    wk.on =>
       /\ wk.terminals <= 1
       /\ wk.phase = "ended" => wk.terminals = 1
       /\ ~wk.lateEvent

\* ---------------------------------------------------------------- C39
\* C39: no PAUSE_DOWNLOAD or RESUME_DOWNLOAD command for a known download id
\* ends in an exception that the message handler does not catch.
C39_Claim == wk.on => ~wk.uncaught

\* ---------------------------------------------------------------- C38
\* C38: in main-thread mode, once cancel() has been called the reactive
\* state is not set to completed and onComplete is not invoked.
C38_Claim ==
    cm.on => (~cm.completedAfterCancel /\ ~cm.onCompleteAfterCancel)

\* ---------------------------------------------------------------- C40
\* C40: when the generator of newTileDownloader has ended and every fetch
\* succeeded, it has yielded the blob of every generated url exactly once,
\* totalCount blobs in all.
C40_Claim ==
    (nd.on /\ nd.pc = "done") =>
       /\ Len(nd.yielded) = nd.totalCount
       /\ \A u \in DOMAIN nd.urls :
             Cardinality({i \in DOMAIN nd.yielded : nd.yielded[i] = u}) = 1

====
